---- MODULE Spec2Model ----
(***************************************************************************)
(* Mark-anchor repair and fallback attachment of scripts/fix_fonts.py:     *)
(* fix_broken_mark_anchors, add_fallback_mark_anchors,                     *)
(* add_dotted_circle_fallback and fix_gdef_mark_classes, as operations on  *)
(* one in-memory font (cmap, glyf, hmtx, GPOS, GDEF).                      *)
(***************************************************************************)
EXTENDS Integers, Sequences, FiniteSets, TLC

VARIABLES
    font,      \* the TTFont the functions mutate in place
    prev,      \* the font as it was when the last call started
    history,   \* one record per finished call: what ran and what it returned
    input,     \* the argument of a pure function under test
    output     \* the results the pure functions gave for input

vars == <<font, prev, history, input, output>>

\* How many calls on one font a behaviour makes.
MaxCalls == 3

Max(a, b) == IF a >= b THEN a ELSE b
Min(a, b) == IF a <= b THEN a ELSE b

(***************************************************************************)
(* unicodedata.combining: the canonical combining class of a codepoint.    *)
(* Two codepoints of every nonzero class of Unicode 14 (the table of the   *)
(* interpreter), the model's marks among them; every other codepoint the   *)
(* model uses has class 0.                                                 *)
(***************************************************************************)
UnicodeData ==
    << <<768, 230>>, <<769, 230>>, <<789, 232>>, <<790, 220>>, <<791, 220>>,
       <<794, 232>>, <<795, 216>>, <<801, 202>>, <<802, 202>>, <<803, 220>>,
       <<820, 1>>, <<821, 1>>, <<824, 1>>, <<837, 240>>, <<860, 233>>,
       <<861, 234>>, <<862, 234>>, <<863, 233>>, <<1434, 222>>, <<1453, 222>>,
       <<1454, 228>>, <<1456, 10>>, <<1457, 11>>, <<1458, 12>>, <<1459, 13>>,
       <<1460, 14>>, <<1461, 15>>, <<1462, 16>>, <<1463, 17>>, <<1464, 18>>,
       <<1465, 19>>, <<1466, 19>>, <<1467, 20>>, <<1468, 21>>, <<1469, 22>>,
       <<1471, 23>>, <<1473, 24>>, <<1474, 25>>, <<1479, 18>>, <<1560, 30>>,
       <<1561, 31>>, <<1562, 32>>, <<1611, 27>>, <<1612, 28>>, <<1613, 29>>,
       <<1614, 30>>, <<1615, 31>>, <<1616, 32>>, <<1617, 33>>, <<1618, 34>>,
       <<1648, 35>>, <<1809, 36>>, <<2288, 27>>, <<2289, 28>>, <<2290, 29>>,
       <<2364, 7>>, <<2381, 9>>, <<2492, 7>>, <<2509, 9>>, <<3157, 84>>,
       <<3158, 91>>, <<3640, 103>>, <<3641, 103>>, <<3656, 107>>, <<3657, 107>>,
       <<3768, 118>>, <<3769, 118>>, <<3784, 122>>, <<3785, 122>>, <<3897, 216>>,
       <<3953, 129>>, <<3954, 130>>, <<3956, 132>>, <<3962, 130>>, <<6313, 228>>,
       <<7630, 214>>, <<7674, 218>>, <<12330, 218>>, <<12334, 224>>,
       <<12335, 224>>, <<12441, 8>>, <<12442, 8>>, <<64286, 26>>, <<94192, 6>>,
       <<94193, 6>>, <<119149, 226>> >>

CombiningCodepoints == {UnicodeData[i][1] : i \in DOMAIN UnicodeData}

CombiningClass ==
    [cp \in CombiningCodepoints |->
        UnicodeData[CHOOSE i \in DOMAIN UnicodeData : UnicodeData[i][1] = cp][2]]

combining(cp) == IF cp \in CombiningCodepoints THEN CombiningClass[cp] ELSE 0

(***************************************************************************)
(* The Mark Classifier: 0 above, 1 below, 2 overlay.  The repair engine    *)
(* and the fallback builder each carry their own copy.                     *)
(***************************************************************************)
below_classes == {202, 214, 218, 220, 222, 223, 224, 225, 226}
overlay_classes == {1, 200}

\* A classifier that has lost the attached-below class 202.
classify_mark_cp_no202(cp) ==
    LET cc == combining(cp)
    IN  IF cc \in (below_classes \ {202}) THEN 1
        ELSE IF cc \in overlay_classes THEN 2
        ELSE 0

\* A classifier without the overlay test.
classify_mark_cp_no_overlay(cp) ==
    LET cc == combining(cp)
    IN  IF cc \in below_classes THEN 1 ELSE 0

classify_mark_cp(cp) ==
    LET cc == combining(cp)
    IN  IF cc \in below_classes THEN 1
        ELSE IF cc \in overlay_classes THEN 2
        ELSE 0

fallback_below_classes == {202, 214, 218, 220, 222, 223, 224, 225, 226}
fallback_overlay_classes == {1, 200}

classify_mark(cp) ==
    LET cc == combining(cp)
    IN  IF cc \in fallback_below_classes THEN 1
        ELSE IF cc \in fallback_overlay_classes THEN 2
        ELSE 0

(***************************************************************************)
(* Font data.  An anchor is a record of its two coordinates; an absent     *)
(* anchor (None in a BaseAnchor array) and absent cached bounds have their *)
(* own values.                                                             *)
(***************************************************************************)
buildAnchor(x, y) == [XCoordinate |-> x, YCoordinate |-> y]
NoAnchor == [IsNone |-> TRUE]
NoBounds == [IsNone |-> TRUE]

Bounds(xmin, ymin, xmax, ymax) ==
    [xMin |-> xmin, yMin |-> ymin, xMax |-> xmax, yMax |-> ymax]

\* Glyph.recalcBounds: the cached fields take the bounds of the outline.
recalcBounds(g) == [g EXCEPT !.bounds = g.outline]

(***************************************************************************)
(* fix_broken_mark_anchors                                                 *)
(***************************************************************************)
stack_gap == 60

\* Reverse cmap: glyph name -> the first codepoint that maps to it
\* (getBestCmap yields the codepoints in ascending order).
name_to_cp(cmap) ==
    [name \in {cmap[cp] : cp \in DOMAIN cmap} |->
        CHOOSE cp \in DOMAIN cmap :
            /\ cmap[cp] = name
            /\ \A other \in DOMAIN cmap : cmap[other] = name => cp <= other]

\* get_glyph_bounds: (yMin, yMax) of a glyph of glyf, recalculated when the
\* glyph carries no yMax; none for a glyph that glyf does not hold.  The glyf
\* table comes back with the recalculated glyph in it.
get_glyph_bounds(glyf, name) ==
    IF name \notin DOMAIN glyf
    THEN [none |-> TRUE, glyf |-> glyf]
    ELSE LET g == IF glyf[name].bounds = NoBounds
                  THEN recalcBounds(glyf[name])
                  ELSE glyf[name]
         IN  [none |-> FALSE, ymin |-> g.bounds.yMin, ymax |-> g.bounds.yMax,
              glyf |-> [glyf EXCEPT ![name] = g]]

\* The subtable a lookup's SubTable entry stands for: the wrapped one when
\* the lookup is an extension lookup (type 9).  A wrapped subtable is the
\* entry's ExtSubTable field; a direct one is the entry itself.
IsExtension(lookup, subtable) ==
    lookup.LookupType = 9 /\ "ExtSubTable" \in DOMAIN subtable

RealSubtable(lookup, subtable) ==
    IF IsExtension(lookup, subtable) THEN subtable.ExtSubTable ELSE subtable

\* getattr(real_st, 'LookupType', lookup.LookupType)
SubtableType(lookup, real_st) ==
    IF "LookupType" \in DOMAIN real_st THEN real_st.LookupType ELSE lookup.LookupType

\* The guards of lines 496-507: a MarkToBase subtable with both coverages
\* and both arrays.
ProcessesSubtable(lookup, subtable) ==
    LET real_st == RealSubtable(lookup, subtable)
        lt == SubtableType(lookup, real_st)
    IN  /\ lt = 4
        /\ "MarkCoverage" \in DOMAIN real_st
        /\ "BaseCoverage" \in DOMAIN real_st
        /\ "MarkArray" \in DOMAIN real_st
        /\ "BaseArray" \in DOMAIN real_st

\* Lines 530-534: the mark anchor sits on the top of a below mark and on the
\* bottom of an above mark.
correct_mark_y(mark_type, mark_ymin, mark_ymax) ==
    IF mark_type = 1 THEN mark_ymax ELSE mark_ymin

\* Lines 544-551: classes_to_fix[mark_class] after one more mark of the class.
\* The entry takes the type of the mark at hand.
track_class(classes_to_fix, mark_class, mark_type, y) ==
    LET entry ==
            IF mark_class \notin DOMAIN classes_to_fix
            THEN <<mark_type, y>>
            ELSE LET prev_y == classes_to_fix[mark_class][2]
                 IN  IF mark_type = 0
                     THEN <<mark_type, Max(prev_y, y)>>
                     ELSE <<mark_type, Min(prev_y, y)>>
    IN  [c \in DOMAIN classes_to_fix \cup {mark_class} |->
            IF c = mark_class THEN entry ELSE classes_to_fix[c]]

\* A first pass that leaves the loop at the first mark without a codepoint
\* or without bounds.
RECURSIVE FirstPass_breaks(_, _, _, _)
FirstPass_breaks(real_st, n2c, m_idx, acc) ==
    IF m_idx > Len(real_st.MarkCoverage) THEN acc
    ELSE
    LET mark_name == real_st.MarkCoverage[m_idx]
    IN  IF mark_name \notin DOMAIN n2c \/ mark_name \notin DOMAIN acc.glyf
        THEN acc
        ELSE IF classify_mark_cp(n2c[mark_name]) = 2
        THEN FirstPass_breaks(real_st, n2c, m_idx + 1, acc)
        ELSE
        LET b == get_glyph_bounds(acc.glyf, mark_name)
            mark_type == classify_mark_cp(n2c[mark_name])
            y == correct_mark_y(mark_type, b.ymin, b.ymax)
        IN  FirstPass_breaks(real_st, n2c, m_idx + 1,
              [glyf |-> b.glyf,
               MarkRecord |->
                 [acc.MarkRecord EXCEPT ![m_idx].MarkAnchor.YCoordinate = y],
               classes_to_fix |->
                 track_class(acc.classes_to_fix, acc.MarkRecord[m_idx].Class,
                             mark_type, y),
               fixed_marks |->
                 acc.fixed_marks
                 + (IF acc.MarkRecord[m_idx].MarkAnchor.YCoordinate # y
                    THEN 1 ELSE 0)])

\* First pass over marks m_idx.. of one subtable (m_idx counts from 1).
\* acc: [glyf, MarkRecord, classes_to_fix, fixed_marks].
RECURSIVE FirstPass(_, _, _, _)
FirstPass(real_st, n2c, m_idx, acc) ==
    IF m_idx > Len(real_st.MarkCoverage) THEN acc
    ELSE
    LET mark_name == real_st.MarkCoverage[m_idx]
    IN  IF mark_name \notin DOMAIN n2c
        THEN FirstPass(real_st, n2c, m_idx + 1, acc)
        ELSE
        LET mark_type == classify_mark_cp(n2c[mark_name])
        IN  IF mark_type = 2
            THEN FirstPass(real_st, n2c, m_idx + 1, acc)
            ELSE
            LET b == get_glyph_bounds(acc.glyf, mark_name)
            IN  IF b.none
                THEN FirstPass(real_st, n2c, m_idx + 1, acc)
                ELSE
                LET m_rec == acc.MarkRecord[m_idx]
                    y == correct_mark_y(mark_type, b.ymin, b.ymax)
                    differs == m_rec.MarkAnchor.YCoordinate # y
                IN  FirstPass(real_st, n2c, m_idx + 1,
                      [glyf |-> b.glyf,
                       MarkRecord |->
                         [acc.MarkRecord EXCEPT
                            ![m_idx].MarkAnchor.YCoordinate = y],
                       classes_to_fix |->
                         track_class(acc.classes_to_fix, m_rec.Class,
                                     mark_type, y),
                       fixed_marks |->
                         acc.fixed_marks + (IF differs THEN 1 ELSE 0)])

\* Lines 568-580: the base anchor Y for one class, pushed one unit past the
\* tracked mark extremum when base bounds plus gap do not clear it.
correct_base_y_unclamped(mark_type, base_ymin, base_ymax, mark_y_threshold) ==
    IF mark_type = 1 THEN base_ymin - stack_gap ELSE base_ymax + stack_gap

correct_base_y(mark_type, base_ymin, base_ymax, mark_y_threshold) ==
    IF mark_type = 1
    THEN LET y == base_ymin - stack_gap
         IN  IF y >= mark_y_threshold THEN mark_y_threshold - 1 ELSE y
    ELSE LET y == base_ymax + stack_gap
         IN  IF y <= mark_y_threshold THEN mark_y_threshold + 1 ELSE y

\* A clamp that tests the anchor's stored Y instead of the computed one.
FixBaseRecord_stored_clamp(b_rec, classes_to_fix, base_ymin, base_ymax) ==
    [b_rec EXCEPT !.BaseAnchor =
        [k \in DOMAIN b_rec.BaseAnchor |->
            IF (k - 1) \in DOMAIN classes_to_fix /\ b_rec.BaseAnchor[k] # NoAnchor
            THEN [b_rec.BaseAnchor[k] EXCEPT !.YCoordinate =
                    IF classes_to_fix[k - 1][1] = 1
                    THEN IF @ >= classes_to_fix[k - 1][2]
                         THEN classes_to_fix[k - 1][2] - 1
                         ELSE base_ymin - stack_gap
                    ELSE IF @ <= classes_to_fix[k - 1][2]
                         THEN classes_to_fix[k - 1][2] + 1
                         ELSE base_ymax + stack_gap]
            ELSE b_rec.BaseAnchor[k]]]

\* Lines 561-585 for one base record: the anchors of the classes to fix that
\* the record holds, each set to its correct Y.
FixBaseRecord(b_rec, classes_to_fix, base_ymin, base_ymax) ==
    [b_rec EXCEPT !.BaseAnchor =
        [k \in DOMAIN b_rec.BaseAnchor |->
            IF (k - 1) \in DOMAIN classes_to_fix /\ b_rec.BaseAnchor[k] # NoAnchor
            THEN [b_rec.BaseAnchor[k] EXCEPT !.YCoordinate =
                    correct_base_y(classes_to_fix[k - 1][1], base_ymin,
                                   base_ymax, classes_to_fix[k - 1][2])]
            ELSE b_rec.BaseAnchor[k]]]

ChangedAnchors(old_rec, new_rec) ==
    Cardinality({k \in DOMAIN old_rec.BaseAnchor :
                    old_rec.BaseAnchor[k] # new_rec.BaseAnchor[k]})

\* Second pass over bases b_idx.. of one subtable (b_idx counts from 1).
\* acc: [glyf, BaseRecord, fixed_bases].
RECURSIVE SecondPass(_, _, _, _)
SecondPass(real_st, classes_to_fix, b_idx, acc) ==
    IF b_idx > Len(real_st.BaseCoverage) THEN acc
    ELSE
    LET b == get_glyph_bounds(acc.glyf, real_st.BaseCoverage[b_idx])
    IN  IF b.none
        THEN SecondPass(real_st, classes_to_fix, b_idx + 1, acc)
        ELSE
        LET b_rec == acc.BaseRecord[b_idx]
            fixed == FixBaseRecord(b_rec, classes_to_fix, b.ymin, b.ymax)
        IN  SecondPass(real_st, classes_to_fix, b_idx + 1,
              [glyf |-> b.glyf,
               BaseRecord |-> [acc.BaseRecord EXCEPT ![b_idx] = fixed],
               fixed_bases |-> acc.fixed_bases + ChangedAnchors(b_rec, fixed)])

EmptyDict == [c \in {} |-> <<0, 0>>]

\* One subtable with the records both passes left (p1, p2: what FirstPass
\* and SecondPass gave).
SubtableResult(real_st, p1, p2) ==
    [real_st |-> [real_st EXCEPT !.MarkArray = p1.MarkRecord,
                                 !.BaseArray = p2.BaseRecord],
     glyf |-> p2.glyf,
     fixed_marks |-> p1.fixed_marks,
     fixed_bases |-> p2.fixed_bases]

\* The second pass run on what the first pass (p1) gave.
FixBases(real_st, p1) ==
    SubtableResult(real_st, p1,
        SecondPass(real_st, p1.classes_to_fix, 1,
            [glyf |-> p1.glyf, BaseRecord |-> real_st.BaseArray,
             fixed_bases |-> 0]))

\* Lines 509-585 for one MarkToBase subtable.
\* Gives [real_st, glyf, fixed_marks, fixed_bases].
FixSubtable(real_st, n2c, glyf) ==
    FixBases(real_st,
        FirstPass(real_st, n2c, 1,
            [glyf |-> glyf, MarkRecord |-> real_st.MarkArray,
             classes_to_fix |-> EmptyDict, fixed_marks |-> 0]))

\* Every (lookup index, subtable index) of a lookup list, in the order the
\* two nested loops of lines 490-491 visit them.
RECURSIVE SubtablePositions(_, _, _)
SubtablePositions(lookups, i, j) ==
    IF i > Len(lookups) THEN <<>>
    ELSE IF j > Len(lookups[i].SubTable) THEN SubtablePositions(lookups, i + 1, 1)
    ELSE <<(<<i, j>>)>> \o SubtablePositions(lookups, i, j + 1)

\* A store that drops the extension wrapper of the subtable.
StoreSubtable_unwrapped(acc, i, j, r) ==
    [Lookup |-> [acc.Lookup EXCEPT ![i].SubTable[j] = r.real_st],
     glyf |-> r.glyf,
     fixed_marks |-> acc.fixed_marks + r.fixed_marks,
     fixed_bases |-> acc.fixed_bases + r.fixed_bases]

\* The accumulator after subtable j of lookup i came back as r from
\* FixSubtable: the anchors are changed in place, the counts add up.
StoreSubtable(acc, i, j, r) ==
    [Lookup |-> [acc.Lookup EXCEPT ![i].SubTable[j] =
                    IF IsExtension(acc.Lookup[i], @)
                    THEN [@ EXCEPT !.ExtSubTable = r.real_st]
                    ELSE r.real_st],
     glyf |-> r.glyf,
     fixed_marks |-> acc.fixed_marks + r.fixed_marks,
     fixed_bases |-> acc.fixed_bases + r.fixed_bases]

\* The loop of lines 490-585 from position k of the positions on.
\* acc: [Lookup, glyf, fixed_marks, fixed_bases].
RECURSIVE FixLookups(_, _, _, _)
FixLookups(positions, n2c, k, acc) ==
    IF k > Len(positions) THEN acc
    ELSE
    LET i == positions[k][1]
        j == positions[k][2]
        lookup == acc.Lookup[i]
        subtable == lookup.SubTable[j]
    IN  IF ~ProcessesSubtable(lookup, subtable)
        THEN FixLookups(positions, n2c, k + 1, acc)
        ELSE FixLookups(positions, n2c, k + 1,
                StoreSubtable(acc, i, j,
                    FixSubtable(RealSubtable(lookup, subtable), n2c, acc.glyf)))

\* Lines 587-591: True when an anchor changed (r: what the loop gave).
RepairResult(f, r) ==
    [font |-> [f EXCEPT !.GPOS.LookupList = r.Lookup, !.glyf = r.glyf],
     ret |-> r.fixed_marks > 0 \/ r.fixed_bases > 0,
     raised |-> FALSE,
     fixed_marks |-> r.fixed_marks,
     fixed_bases |-> r.fixed_bases]

\* fix_broken_mark_anchors(font): [font, ret, raised, fixed_marks, fixed_bases].
fix_broken_mark_anchors(f) ==
    IF "GPOS" \notin f.tables \/ "glyf" \notin f.tables
    THEN [font |-> f, ret |-> FALSE, raised |-> FALSE,
          fixed_marks |-> 0, fixed_bases |-> 0]
    ELSE RepairResult(f,
            FixLookups(SubtablePositions(f.GPOS.LookupList, 1, 1),
                       name_to_cp(f.cmap), 1,
                       [Lookup |-> f.GPOS.LookupList, glyf |-> f.glyf,
                        fixed_marks |-> 0, fixed_bases |-> 0]))

(***************************************************************************)
(* add_fallback_mark_anchors                                               *)
(***************************************************************************)
fallback_stack_gap == 60

Range(seq) == {seq[i] : i \in DOMAIN seq}

RECURSIVE Ascending(_)
Ascending(S) ==
    IF S = {} THEN <<>>
    ELSE LET m == CHOOSE x \in S : \A y \in S : x <= y
         IN  <<m>> \o Ascending(S \ {m})

\* Lines 614-618: (name, cp) of every cmap codepoint with a nonzero combining
\* class, in codepoint order.
mark_glyphs(cmap) ==
    LET cps == Ascending({cp \in DOMAIN cmap : combining(cp) # 0})
    IN  [i \in DOMAIN cps |-> <<cmap[cps[i]], cps[i]>>]

mark_glyph_names(cmap) == {m[1] : m \in Range(mark_glyphs(cmap))}

\* Lines 623-640: the candidate bases.  Only membership of the list is used.
base_glyphs(f) ==
    {f.cmap[cp] : cp \in {c \in DOMAIN f.cmap :
                            /\ combining(c) = 0
                            /\ f.cmap[c] \notin mark_glyph_names(f.cmap)}}
    \cup {g \in Range(f.glyphOrder) :
            /\ g \notin {f.cmap[c] : c \in DOMAIN f.cmap}
            /\ g \notin mark_glyph_names(f.cmap)
            /\ g \in DOMAIN f.glyf}

\* A font read as if no mark were covered yet.
existing_mark_glyphs_none(gpos) == {}

\* Lines 647-666: the marks some MarkToBase subtable of a lookup of a `mark`
\* feature covers.
existing_mark_glyphs(gpos) ==
    LET mark_lookup_indices ==
            UNION {Range(record.LookupListIndex) :
                    record \in {r \in Range(gpos.FeatureList) : r.FeatureTag = "mark"}}
    IN  UNION {Range(RealSubtable(gpos.LookupList[i], gpos.LookupList[i].SubTable[j]).MarkCoverage) :
            <<i, j>> \in {p \in Range(SubtablePositions(gpos.LookupList, 1, 1)) :
                LET lookup == gpos.LookupList[p[1]]
                    real_st == RealSubtable(lookup, lookup.SubTable[p[2]])
                IN  /\ (p[1] - 1) \in mark_lookup_indices
                    /\ SubtableType(lookup, real_st) = 4
                    /\ "MarkCoverage" \in DOMAIN real_st}}

\* Lines 670-673.
target_mark_glyphs(f) ==
    SelectSeq(mark_glyphs(f.cmap),
              LAMBDA m : m[1] \notin existing_mark_glyphs(f.GPOS))

\* `if not hasattr(g, "xMax") or g.xMax is None: g.recalcBounds(glyf)` for
\* every glyph of names that glyf holds.
RecalcMissing(glyf, names) ==
    [g \in DOMAIN glyf |->
        IF g \in names /\ glyf[g].bounds = NoBounds
        THEN recalcBounds(glyf[g]) ELSE glyf[g]]

RECURSIVE Sum(_)
Sum(seq) == IF seq = <<>> THEN 0 ELSE Head(seq) + Sum(Tail(seq))

\* Lines 685-695: the heights of the marks of one class (glyf: after the
\* recalculation of line 692).
class_heights(glyf, cmap, cls) ==
    LET ofClass == SelectSeq(mark_glyphs(cmap),
                     LAMBDA m : m[1] \in DOMAIN glyf /\ classify_mark(m[2]) = cls)
    IN  [i \in DOMAIN ofClass |->
            Max(glyf[ofClass[i][1]].bounds.yMax - glyf[ofClass[i][1]].bounds.yMin, 0)]

\* Lines 697-702.
class_gap(glyf, cmap, cls) ==
    LET heights == class_heights(glyf, cmap, cls)
    IN  IF Len(heights) = 0 THEN fallback_stack_gap
        ELSE LET avg == Sum(heights) \div Len(heights)
             IN  Max(fallback_stack_gap, avg \div 2)

\* Lines 714-722: the anchor of a fallback mark of class cls.
fallback_mark_anchor(cls, b) ==
    buildAnchor((b.xMin + b.xMax) \div 2,
                IF cls = 1 THEN b.yMax
                ELSE IF cls = 2 THEN (b.yMin + b.yMax) \div 2
                ELSE b.yMin)

\* The target marks the loop of lines 704-722 does not skip.
UsableTargetsNoOverlay(f) ==
    SelectSeq(target_mark_glyphs(f),
              LAMBDA m : /\ m[1] \in DOMAIN f.glyf
                         /\ m[1] \in DOMAIN f.hmtx
                         /\ classify_mark(m[2]) # 2)

UsableTargets(f) ==
    SelectSeq(target_mark_glyphs(f),
              LAMBDA m : m[1] \in DOMAIN f.glyf /\ m[1] \in DOMAIN f.hmtx)

\* Lines 704-722: mark_anchors, name -> (cls, anchor); a later entry of the
\* same name replaces an earlier one.
mark_anchors(f, glyf) ==
    LET usable == UsableTargets(f)
    IN  [name \in {m[1] : m \in Range(usable)} |->
            LET last == CHOOSE i \in DOMAIN usable :
                            /\ usable[i][1] = name
                            /\ \A k \in DOMAIN usable : usable[k][1] = name => k <= i
                cls == classify_mark(usable[last][2])
            IN  <<cls, fallback_mark_anchor(cls, glyf[name].bounds)>>]

mark_classes_present(f) == {classify_mark(m[2]) : m \in Range(UsableTargets(f))}

\* Lines 782-790: the anchors of one base, class -> anchor.
anchors_for_base(f, glyf, base, classes) ==
    LET b == glyf[base].bounds
        x == f.hmtx[base] \div 2
    IN  [cls \in classes |->
            IF cls = 0 THEN buildAnchor(x, b.yMax + class_gap(glyf, f.cmap, 0))
            ELSE IF cls = 1 THEN buildAnchor(x, b.yMin - class_gap(glyf, f.cmap, 1))
            ELSE buildAnchor(x, (b.yMin + b.yMax) \div 2)]

\* Lines 775-792: base_anchors, base -> class -> anchor.
base_anchors(f, glyf, classes) ==
    [base \in {g \in base_glyphs(f) :
                 g \in DOMAIN glyf /\ g \in DOMAIN f.hmtx /\ classes # {}} |->
        anchors_for_base(f, glyf, base, classes)]

\* fontTools.otlLib.builder.buildMarkBasePos: one MarkBasePos subtable, both
\* coverages in glyph-ID order, ClassCount = highest mark class + 1, a base
\* record holding None for every class the base has no anchor for.
buildMarkBasePos(marks, bases, glyphOrder) ==
    LET MarkCoverage == SelectSeq(glyphOrder, LAMBDA g : g \in DOMAIN marks)
        BaseCoverage == SelectSeq(glyphOrder, LAMBDA g : g \in DOMAIN bases)
        top == CHOOSE c \in {marks[g][1] : g \in DOMAIN marks} :
                  \A g \in DOMAIN marks : marks[g][1] <= c
    IN  << [LookupType |-> 4,
            MarkCoverage |-> MarkCoverage,
            MarkArray |-> [i \in DOMAIN MarkCoverage |->
                [Class |-> marks[MarkCoverage[i]][1],
                 MarkAnchor |-> marks[MarkCoverage[i]][2]]],
            BaseCoverage |-> BaseCoverage,
            BaseArray |-> [i \in DOMAIN BaseCoverage |->
                [BaseAnchor |-> [k \in 1..(top + 1) |->
                    IF (k - 1) \in DOMAIN bases[BaseCoverage[i]]
                    THEN bases[BaseCoverage[i]][k - 1] ELSE NoAnchor]]]] >>

NewLookup(subtables) == [LookupType |-> 4, LookupFlag |-> 0, SubTable |-> subtables]

HasMarkFeature(gpos) == \E i \in DOMAIN gpos.FeatureList : gpos.FeatureList[i].FeatureTag = "mark"

\* Lines 810-813 and 909-912: new_index appended to the first `mark` record.
AppendToMarkFeature(FeatureList, new_index) ==
    LET first == CHOOSE i \in DOMAIN FeatureList :
                    /\ FeatureList[i].FeatureTag = "mark"
                    /\ \A k \in DOMAIN FeatureList :
                          FeatureList[k].FeatureTag = "mark" => i <= k
    IN  [FeatureList EXCEPT ![first].LookupListIndex = Append(@, new_index)]

\* Lines 797-822: the lookup built from marks and bases is appended and
\* hooked into the `mark` feature; f2 is the font as the loops left it.
FallbackSplice(f2, lookup) ==
    IF HasMarkFeature(f2.GPOS)
    THEN [font |-> [f2 EXCEPT
                      !.GPOS.LookupList = Append(@, lookup),
                      !.GPOS.FeatureList =
                          AppendToMarkFeature(@, Len(f2.GPOS.LookupList))],
          ret |-> TRUE, raised |-> FALSE]
    ELSE IF Len(f2.GPOS.FeatureList) = 0
    THEN \* FeatureRecord[0] of an empty list: IndexError, the lookup appended
         [font |-> [f2 EXCEPT !.GPOS.LookupList = Append(@, lookup)],
          ret |-> FALSE, raised |-> TRUE]
    ELSE [font |-> [f2 EXCEPT
                      !.GPOS.LookupList = Append(@, lookup),
                      !.GPOS.FeatureList =
                          Append(@, [FeatureTag |-> "mark",
                                     LookupListIndex |-> <<Len(f2.GPOS.LookupList)>>])],
          ret |-> TRUE, raised |-> FALSE]

\* A builder without the test of line 794.
FallbackBuild_unchecked(f2, marks, bases) ==
    FallbackSplice(f2, NewLookup(buildMarkBasePos(marks, bases, f2.glyphOrder)))

\* Lines 794-797 (bases: base_anchors).
FallbackBuild(f2, marks, bases) ==
    IF DOMAIN bases = {}
    THEN [font |-> f2, ret |-> FALSE, raised |-> FALSE]
    ELSE FallbackSplice(f2,
            NewLookup(buildMarkBasePos(marks, bases, f2.glyphOrder)))

\* Lines 775-792 (f2: the font with the bounds of the candidate bases
\* recalculated).
FallbackBases(f, f2, marks) ==
    FallbackBuild(f2, marks, base_anchors(f, f2.glyf, mark_classes_present(f)))

\* Lines 724-725 (marks: mark_anchors).  Lines 727-773 compute mark-to-mark
\* anchors that nothing uses.
FallbackMarks(f, f1, marks) ==
    IF DOMAIN marks = {}
    THEN [font |-> f1, ret |-> FALSE, raised |-> FALSE]
    ELSE FallbackBases(f,
            [f1 EXCEPT !.glyf =
                RecalcMissing(@, {g \in base_glyphs(f) : g \in DOMAIN f.hmtx})],
            marks)

\* Lines 685-722 (f1: the font with the bounds of the marks recalculated).
FallbackTargets(f, f1) == FallbackMarks(f, f1, mark_anchors(f, f1.glyf))

\* Lines 599-835: the function past its table guard.
FallbackWithTables(f) ==
    IF Len(mark_glyphs(f.cmap)) = 0
    THEN [font |-> f, ret |-> FALSE, raised |-> FALSE]
    ELSE IF Len(target_mark_glyphs(f)) = 0
    THEN [font |-> f, ret |-> FALSE, raised |-> FALSE]
    ELSE FallbackTargets(f,
            [f EXCEPT !.glyf = RecalcMissing(@, mark_glyph_names(f.cmap))])

\* A guard that checks glyf alone: font['GPOS'] of a font without GPOS is a
\* KeyError.
add_fallback_mark_anchors_glyf_guard(f) ==
    IF "glyf" \notin f.tables
    THEN [font |-> f, ret |-> FALSE, raised |-> FALSE]
    ELSE IF "GPOS" \notin f.tables
    THEN [font |-> f, ret |-> FALSE, raised |-> TRUE]
    ELSE FallbackWithTables(f)

\* add_fallback_mark_anchors(font): [font, ret, raised].
add_fallback_mark_anchors(f) ==
    IF "GPOS" \notin f.tables \/ "glyf" \notin f.tables
    THEN [font |-> f, ret |-> FALSE, raised |-> FALSE]
    ELSE FallbackWithTables(f)

(***************************************************************************)
(* add_dotted_circle_fallback                                              *)
(***************************************************************************)
DottedCircle == 9676

\* Line 844: cmap.get(0x25CC) or 'dottedcircle'.
dotted_glyph(cmap) ==
    IF DottedCircle \in DOMAIN cmap THEN cmap[DottedCircle] ELSE "dottedcircle"

IndexOf(seq, x) == CHOOSE i \in DOMAIN seq : seq[i] = x /\ \A k \in DOMAIN seq : seq[k] = x => i <= k

\* Lines 853-870: some MarkToBase subtable holds mark_name and the dotted
\* circle, with an anchor on the dotted circle at the mark's class.
has_anchor(gpos, dotted, mark_name) ==
    \E p \in Range(SubtablePositions(gpos.LookupList, 1, 1)) :
        LET lookup == gpos.LookupList[p[1]]
            st == lookup.SubTable[p[2]]
            real == IF lookup.LookupType = 9 /\ "ExtSubTable" \in DOMAIN st
                    THEN st.ExtSubTable ELSE st
        IN  /\ "LookupType" \in DOMAIN real
            /\ real.LookupType = 4
            /\ mark_name \in Range(real.MarkCoverage)
            /\ dotted \in Range(real.BaseCoverage)
            /\ LET m_rec == real.MarkArray[IndexOf(real.MarkCoverage, mark_name)]
                   anchors == real.BaseArray[IndexOf(real.BaseCoverage, dotted)].BaseAnchor
               IN  /\ m_rec.Class < Len(anchors)
                   /\ anchors[m_rec.Class + 1] # NoAnchor

\* Lines 872-881: the marks with no anchor on the dotted circle.
missing_marks(f, dotted) ==
    {m[1] : m \in {x \in Range(mark_glyphs(f.cmap)) : ~has_anchor(f.GPOS, dotted, x[1])}}

\* Lines 886-914 (f1: the font with the bounds of the dotted circle
\* recalculated).
DottedBuild(f1, dotted, missing) ==
    IF dotted \notin DOMAIN f1.hmtx
       \/ \E name \in missing : name \notin Range(f1.glyphOrder)
    THEN \* hmtx[dotted], or the glyph ID of a mark: KeyError
         [font |-> f1, ret |-> FALSE, raised |-> TRUE]
    ELSE
    LET marks == [name \in missing |-> <<0, buildAnchor(0, 0)>>]
        bases == [b \in {dotted} |->
                    [c \in {0} |-> buildAnchor(f1.hmtx[dotted] \div 2,
                                               f1.glyf[dotted].bounds.yMax)]]
        lookup == NewLookup(buildMarkBasePos(marks, bases, f1.glyphOrder))
    IN  [font |-> IF HasMarkFeature(f1.GPOS)
                  THEN [f1 EXCEPT
                          !.GPOS.LookupList = Append(@, lookup),
                          !.GPOS.FeatureList =
                              AppendToMarkFeature(@, Len(f1.GPOS.LookupList))]
                  ELSE [f1 EXCEPT !.GPOS.LookupList = Append(@, lookup)],
         ret |-> TRUE, raised |-> FALSE]

\* Lines 878-884.
DottedMissing(f, dotted, missing) ==
    IF missing = {}
    THEN [font |-> f, ret |-> FALSE, raised |-> FALSE]
    ELSE DottedBuild([f EXCEPT !.glyf = RecalcMissing(@, {dotted})], dotted, missing)

\* add_dotted_circle_fallback(font): [font, ret, raised].
add_dotted_circle_fallback(f) ==
    IF "GPOS" \notin f.tables \/ "glyf" \notin f.tables
    THEN [font |-> f, ret |-> FALSE, raised |-> FALSE]
    ELSE IF dotted_glyph(f.cmap) \notin DOMAIN f.glyf
    THEN [font |-> f, ret |-> FALSE, raised |-> FALSE]
    ELSE DottedMissing(f, dotted_glyph(f.cmap),
                       missing_marks(f, dotted_glyph(f.cmap)))

(***************************************************************************)
(* fix_gdef_mark_classes                                                   *)
(***************************************************************************)
NoTable == [IsNone |-> TRUE]

\* Lines 1032-1038: the glyphs whose class the loop sets to 3.
gdef_marks_to_fix_unclassed(cmap, classDefs) ==
    {cmap[cp] : cp \in {c \in DOMAIN cmap :
                          combining(c) # 0 /\ cmap[c] \notin DOMAIN classDefs}}

gdef_marks_to_fix(cmap, classDefs) ==
    {cmap[cp] : cp \in {c \in DOMAIN cmap :
                          /\ combining(c) # 0
                          /\ (cmap[c] \notin DOMAIN classDefs \/ classDefs[cmap[c]] # 3)}}

\* fix_gdef_mark_classes(font): [font, ret, raised].
fix_gdef_mark_classes(f) ==
    IF "GDEF" \notin f.tables
    THEN [font |-> f, ret |-> FALSE, raised |-> FALSE]
    ELSE IF f.GDEF.GlyphClassDef = NoTable
    THEN [font |-> f, ret |-> FALSE, raised |-> FALSE]
    ELSE
    LET classDefs == f.GDEF.GlyphClassDef.classDefs
        fix == gdef_marks_to_fix(f.cmap, classDefs)
    IN  [font |-> [f EXCEPT !.GDEF.GlyphClassDef.classDefs =
                     [g \in DOMAIN classDefs \cup fix |->
                        IF g \in fix THEN 3 ELSE classDefs[g]]],
         ret |-> fix # {},
         raised |-> FALSE]

(***************************************************************************)
(* The fonts the functions are run on.  Seven glyphs: the bases a and      *)
(* dottedcircle, .notdef, the marks acutecomb (U+0301, above),             *)
(* dotbelowcomb (U+0323, below), uni0338 (overlay) and gravecomb.case (no  *)
(* codepoint).  A knob record picks the tables present, the cmap, the      *)
(* geometry, the cached bounds and the layout of the GPOS table.           *)
(***************************************************************************)
Outline(k) ==
    [g \in {".notdef", "a", "dottedcircle", "acutecomb", "dotbelowcomb",
            "uni0338", "gravecomb.case"} |->
        CASE g = ".notdef"        -> Bounds(50, 0, 450, 700)
          [] g = "a"              -> Bounds(60, 0, 440, k.aTop)
          [] g = "dottedcircle"   -> Bounds(40, 100, 460, 600)
          [] g = "acutecomb"      -> Bounds(-320, 600, -180, 750)
          [] g = "dotbelowcomb"   -> Bounds(-290, -200, -210, -80)
          [] g = "uni0338"        -> Bounds(-400, -100, -100, 800)
          [] g = "gravecomb.case" -> Bounds(-320, 780, -180, 900)]

GlyphOrderOf(k) ==
    IF k.cmap = "marksonly"
    THEN <<"acutecomb", "dotbelowcomb">>
    ELSE IF k.cmap = "nodotted"
    THEN <<".notdef", "a", "acutecomb", "dotbelowcomb", "uni0338", "gravecomb.case">>
    ELSE <<".notdef", "a", "dottedcircle", "acutecomb", "dotbelowcomb", "uni0338",
           "gravecomb.case">>

\* cache: every glyph with bounds as stored in the file ("cached"), no glyph
\* with bounds yet ("none"), or a with bounds that its outline has outgrown
\* ("stale").
GlyfOf(k) ==
    [g \in Range(GlyphOrderOf(k)) |->
        [outline |-> Outline(k)[g],
         bounds |-> IF k.cache = "none" THEN NoBounds
                    ELSE IF k.cache = "stale" /\ g = "a"
                    THEN [Outline(k)[g] EXCEPT !.yMax = @ - 20]
                    ELSE Outline(k)[g]]]

HmtxOf(k) ==
    [g \in Range(GlyphOrderOf(k)) |->
        IF g \in {"acutecomb", "dotbelowcomb", "uni0338", "gravecomb.case"}
        THEN 0 ELSE 500]

\* cmap: "full" maps the two bases and the three marks; "nomarks" only the
\* bases; "ghost" maps U+0301 to a glyph name that the font does not hold;
\* "nodotted" is a font without the dotted circle; "marksonly" is a font cut
\* down to two marks, with no other glyph; "ragged" maps U+0300 to
\* gravecomb.case, leaves uni0338 out and maps U+0316 to a glyph name that
\* the font does not hold.
CmapOf(k) ==
    CASE k.cmap = "full" ->
            (97 :> "a") @@ (9676 :> "dottedcircle") @@ (769 :> "acutecomb")
            @@ (803 :> "dotbelowcomb") @@ (824 :> "uni0338")
      [] k.cmap = "nomarks" ->
            (97 :> "a") @@ (9676 :> "dottedcircle")
      [] k.cmap = "ghost" ->
            (97 :> "a") @@ (9676 :> "dottedcircle") @@ (769 :> "glyph00099")
            @@ (803 :> "dotbelowcomb")
      [] k.cmap = "nodotted" ->
            (97 :> "a") @@ (769 :> "acutecomb") @@ (803 :> "dotbelowcomb")
      [] k.cmap = "marksonly" ->
            (769 :> "acutecomb") @@ (803 :> "dotbelowcomb")
      [] k.cmap = "ragged" ->
            (97 :> "a") @@ (9676 :> "dottedcircle") @@ (768 :> "gravecomb.case")
            @@ (769 :> "acutecomb") @@ (790 :> "glyph00099")
            @@ (803 :> "dotbelowcomb")

\* The engineered MarkToBase subtable.  covered = "all": the four marks on
\* a and dottedcircle; "acute": acutecomb on a.  classes = <<class of
\* acutecomb, class of dotbelowcomb>>; uni0338 has class 2 and
\* gravecomb.case class 0.  Every stored anchor Y is k.storedY; the dotted
\* circle has no anchor for class 1.  covered = "ragged": a subtable of two
\* classes whose coverages also name glyph00099 and glyph00098, glyphs that
\* the font does not hold, and whose mark gravecomb.case has class 2.
EngineeredSubtable(k) ==
    LET marks == IF k.covered = "all"
                 THEN SelectSeq(<<"acutecomb", "dotbelowcomb", "uni0338", "gravecomb.case">>,
                                LAMBDA g : g \in Range(GlyphOrderOf(k)))
                 ELSE IF k.covered = "ragged"
                 THEN <<"uni0338", "glyph00099", "acutecomb", "dotbelowcomb",
                        "gravecomb.case">>
                 ELSE <<"acutecomb">>
        bases == IF k.covered = "all"
                 THEN SelectSeq(<<"a", "dottedcircle">>,
                                LAMBDA g : g \in Range(GlyphOrderOf(k)))
                 ELSE IF k.covered = "ragged"
                 THEN <<"glyph00098", "a", "dottedcircle">>
                 ELSE <<"a">>
        classCount == IF k.covered = "ragged" THEN 2 ELSE 3
        classOf == [g \in {"acutecomb", "dotbelowcomb", "uni0338", "gravecomb.case",
                           "glyph00099"} |->
                      CASE g = "acutecomb" -> k.classes[1]
                        [] g = "dotbelowcomb" -> k.classes[2]
                        [] g = "uni0338" -> IF k.covered = "ragged" THEN 1 ELSE 2
                        [] g = "gravecomb.case" -> IF k.covered = "ragged" THEN 2 ELSE 0
                        [] g = "glyph00099" -> 1]
    IN  [LookupType |-> 4,
         MarkCoverage |-> marks,
         MarkArray |-> [i \in DOMAIN marks |->
            [Class |-> classOf[marks[i]], MarkAnchor |-> buildAnchor(-250, k.storedY)]],
         BaseCoverage |-> bases,
         BaseArray |-> [i \in DOMAIN bases |->
            [BaseAnchor |-> [c \in 1..classCount |->
                IF bases[i] = "dottedcircle" /\ c = 2 THEN NoAnchor
                ELSE buildAnchor(250, k.storedY)]]]]

PairLookup ==
    [LookupType |-> 2, LookupFlag |-> 0,
     SubTable |-> << [LookupType |-> 2, Coverage |-> <<"a">>, XAdvance |-> -40] >>]

\* The pair-positioning lookup of a font that holds marks only.
MarkPairLookup ==
    [LookupType |-> 2, LookupFlag |-> 0,
     SubTable |-> << [LookupType |-> 2, Coverage |-> <<"acutecomb">>, XAdvance |-> 0] >>]

MarkLookup(k) ==
    IF k.ext
    THEN [LookupType |-> 9, LookupFlag |-> 0,
          SubTable |-> << [LookupType |-> 9, ExtSubTable |-> EngineeredSubtable(k)] >>]
    ELSE [LookupType |-> 4, LookupFlag |-> 0,
          SubTable |-> << EngineeredSubtable(k) >>]

\* features: "mark" (kern and mark records), "kern" (no mark record),
\* "none" (an empty feature list).  The scripts DFLT and latn list every
\* feature of the feature list in their default language system.
GposOf(k) ==
    [LookupList |-> IF k.cmap = "marksonly" THEN <<MarkPairLookup>>
                    ELSE IF k.covered = "none" THEN <<PairLookup>>
                    ELSE IF k.covered = "ragged"
                    THEN <<PairLookup, MarkLookup(k),
                           MarkLookup([k EXCEPT !.covered = "acute"])>>
                    ELSE <<PairLookup, MarkLookup(k)>>,
     FeatureList |->
        CASE k.features = "mark" ->
                << [FeatureTag |-> "kern", LookupListIndex |-> <<0>>],
                   [FeatureTag |-> "mark",
                    LookupListIndex |-> IF k.covered = "none" THEN <<>>
                                        ELSE IF k.covered = "ragged" THEN <<1, 2>>
                                        ELSE <<1>>] >>
          [] k.features = "kern" ->
                << [FeatureTag |-> "kern", LookupListIndex |-> <<0>>] >>
          [] k.features = "none" -> <<>>,
     ScriptList |->
        [tag \in {"DFLT", "latn"} |->
            [DefaultLangSys |-> [FeatureIndex |->
                CASE k.features = "mark" -> <<0, 1>>
                  [] k.features = "kern" -> <<0>>
                  [] k.features = "none" -> <<>>]]]]

\* gdef: "classed" (every glyph classed, marks as 3), "wrong" (acutecomb
\* classed as a base, the other marks unclassed), "nodef" (no GlyphClassDef).
GdefOf(k) ==
    CASE k.gdef = "classed" ->
            [GlyphClassDef |-> [classDefs |->
                [g \in Range(GlyphOrderOf(k)) \ {".notdef"} |->
                    IF g \in {"a", "dottedcircle"} THEN 1 ELSE 3]]]
      [] k.gdef = "wrong" ->
            [GlyphClassDef |-> [classDefs |-> ("a" :> 1) @@ ("acutecomb" :> 1)]]
      [] k.gdef = "nodef" -> [GlyphClassDef |-> NoTable]

MakeFont(k) ==
    [tables |-> k.tables,
     cmap |-> CmapOf(k),
     glyphOrder |-> GlyphOrderOf(k),
     glyf |-> IF "glyf" \in k.tables THEN GlyfOf(k) ELSE NoTable,
     hmtx |-> HmtxOf(k),
     GPOS |-> IF "GPOS" \in k.tables THEN GposOf(k) ELSE NoTable,
     GDEF |-> IF "GDEF" \in k.tables THEN GdefOf(k) ELSE NoTable]

AllTables == {"cmap", "glyf", "hmtx", "GPOS", "GDEF"}

\* Fonts whose engineered anchors vary: geometry, cache, class plan, stored Y.
RepairKnobs ==
    [tables : {AllTables}, cmap : {"full"}, features : {"mark"}, gdef : {"classed"},
     aTop : {500, 700}, cache : {"cached", "none", "stale"},
     classes : {<<0, 1>>, <<0, 0>>, <<1, 0>>}, covered : {"all", "acute"},
     storedY : {0, 300}, ext : BOOLEAN]

\* Fonts whose coverage varies: cmap, what is covered, the feature list.
FallbackKnobs ==
    [tables : {AllTables}, cmap : {"full", "nomarks", "ghost", "nodotted"},
     features : {"mark", "kern", "none"}, gdef : {"wrong", "nodef"},
     aTop : {500, 700}, cache : {"none"},
     classes : {<<0, 1>>}, covered : {"all", "acute", "none"},
     storedY : {0}, ext : {FALSE}]

\* Fonts that lack a table.
TableKnobs ==
    [tables : {AllTables \ {"GPOS"}, AllTables \ {"glyf"}, AllTables \ {"GDEF"}},
     cmap : {"full", "nomarks"},
     features : {"mark"}, gdef : {"wrong"},
     aTop : {500}, cache : {"none", "cached"},
     classes : {<<0, 1>>}, covered : {"all", "none"},
     storedY : {0}, ext : {FALSE}]

\* Fonts with no glyph that could be a base.
MarksOnlyKnobs ==
    [tables : {AllTables}, cmap : {"marksonly"},
     features : {"mark", "kern", "none"}, gdef : {"nodef"},
     aTop : {500}, cache : {"none", "cached"},
     classes : {<<0, 1>>}, covered : {"none"},
     storedY : {0}, ext : {FALSE}]

\* Fonts whose first MarkToBase subtable holds entries that the repair
\* passes over, followed by a second MarkToBase lookup.
SkipKnobs ==
    [tables : {AllTables}, cmap : {"ragged"}, features : {"mark"}, gdef : {"nodef"},
     aTop : {500, 700}, cache : {"cached", "none"},
     classes : {<<0, 1>>}, covered : {"ragged"},
     storedY : {0, 300}, ext : BOOLEAN]

Fonts ==
    {MakeFont(k) : k \in RepairKnobs}
    \cup {MakeFont(k) : k \in FallbackKnobs}
    \cup {MakeFont(k) : k \in TableKnobs}
    \cup {MakeFont(k) : k \in MarksOnlyKnobs}
    \cup {MakeFont(k) : k \in SkipKnobs}

(***************************************************************************)
(* The calls.  Each is one whole function run on the font.                 *)
(***************************************************************************)
NoInput == [fn |-> "none"]
NoOutput == {}

Init ==
    /\ font \in Fonts
    /\ prev = font
    /\ history = <<>>
    /\ input = NoInput
    /\ output = NoOutput

Finish(name, r) ==
    /\ prev' = font
    /\ font' = r.font
    /\ history' = Append(history,
            [k \in (DOMAIN r \ {"font"}) \cup {"op"} |->
                IF k = "op" THEN name ELSE r[k]])
    /\ UNCHANGED <<input, output>>

FixBrokenMarkAnchors ==
    /\ Len(history) < MaxCalls
    /\ Finish("fix_broken_mark_anchors", fix_broken_mark_anchors(font))

AddFallbackMarkAnchors ==
    /\ Len(history) < MaxCalls
    /\ Finish("add_fallback_mark_anchors", add_fallback_mark_anchors(font))

AddDottedCircleFallback ==
    /\ Len(history) < MaxCalls
    /\ Finish("add_dotted_circle_fallback", add_dotted_circle_fallback(font))

FixGdefMarkClasses ==
    /\ Len(history) < MaxCalls
    /\ Finish("fix_gdef_mark_classes", fix_gdef_mark_classes(font))

Next ==
    \/ FixBrokenMarkAnchors
    \/ AddFallbackMarkAnchors
    \/ AddDottedCircleFallback
    \/ FixGdefMarkClasses

Spec == Init /\ [][Next]_vars

(***************************************************************************)
(* The two classifiers on their own: one codepoint, each copy applied to   *)
(* it once.  output collects <<function, result>>.                         *)
(***************************************************************************)
ClassifierInputs == CombiningCodepoints \cup {97, 9676}

InitClassify ==
    /\ font = NoTable
    /\ prev = NoTable
    /\ history = <<>>
    /\ input \in {[fn |-> "classify", cp |-> c] : c \in ClassifierInputs}
    /\ output = NoOutput

ClassifyMarkCp ==
    /\ \A o \in output : o[1] # "classify_mark_cp"
    /\ output' = output \cup {<<"classify_mark_cp", classify_mark_cp(input.cp)>>}
    /\ UNCHANGED <<font, prev, history, input>>

ClassifyMark ==
    /\ \A o \in output : o[1] # "classify_mark"
    /\ output' = output \cup {<<"classify_mark", classify_mark(input.cp)>>}
    /\ UNCHANGED <<font, prev, history, input>>

NextClassify == ClassifyMarkCp \/ ClassifyMark

SpecClassify == InitClassify /\ [][NextClassify]_vars

(***************************************************************************)
(* Properties.  The placement of a codepoint is stated here from the       *)
(* combining class itself, next to the classifiers of the code.            *)
(***************************************************************************)
Last == history[Len(history)]
Ran(op) == Len(history) >= 1 /\ Last.op = op
RanTwice(op) ==
    /\ Len(history) >= 2
    /\ Last.op = op
    /\ history[Len(history) - 1].op = op

HasLayout(f) == "GPOS" \in f.tables /\ "glyf" \in f.tables

Placement(cp) ==
    IF combining(cp) \in {202, 214, 218, 220, 222, 223, 224, 225, 226} THEN "below"
    ELSE IF combining(cp) \in {1, 200} THEN "overlay"
    ELSE "above"

\* The positions <<lookup, subtable>> of the MarkToBase subtables of f, and
\* the subtable at a position, with any extension wrapper taken off.
MarkToBasePositions(f) ==
    IF ~HasLayout(f) THEN {}
    ELSE {p \in Range(SubtablePositions(f.GPOS.LookupList, 1, 1)) :
            ProcessesSubtable(f.GPOS.LookupList[p[1]],
                              f.GPOS.LookupList[p[1]].SubTable[p[2]])}

RealAt(f, p) ==
    RealSubtable(f.GPOS.LookupList[p[1]], f.GPOS.LookupList[p[1]].SubTable[p[2]])

\* Mark m of subtable st is one the first pass works on: it has a codepoint,
\* is no overlay mark and has bounds.  MarkPlacement: its placement.
MarkPlacement(f, st, m) == Placement(name_to_cp(f.cmap)[st.MarkCoverage[m]])

ProcessedMark(f, st, m) ==
    /\ st.MarkCoverage[m] \in DOMAIN name_to_cp(f.cmap)
    /\ MarkPlacement(f, st, m) # "overlay"
    /\ st.MarkCoverage[m] \in DOMAIN f.glyf

\* Base b of st has bounds and holds an anchor for class c.
ProcessedBaseAnchor(f, st, b, c) ==
    /\ st.BaseCoverage[b] \in DOMAIN f.glyf
    /\ c < Len(st.BaseArray[b].BaseAnchor)
    /\ st.BaseArray[b].BaseAnchor[c + 1] # NoAnchor

MarkY(st, m) == st.MarkArray[m].MarkAnchor.YCoordinate
BaseY(st, b, c) == st.BaseArray[b].BaseAnchor[c + 1].YCoordinate

\* What get_glyph_bounds answers for a glyph of glyf.
EffectiveBounds(glyf, name) ==
    IF glyf[name].bounds = NoBounds THEN glyf[name].outline ELSE glyf[name].bounds

\* The glyphs of the cmap that are combining marks, and the glyphs that the
\* mark coverage of some MarkToBase subtable of f holds.
CombiningGlyphs(f) == {f.cmap[cp] : cp \in {c \in DOMAIN f.cmap : combining(c) # 0}}

CoveredMarks(f) ==
    UNION {Range(RealAt(f, p).MarkCoverage) : p \in MarkToBasePositions(f)}

\* C1: a second run of fix_broken_mark_anchors right after a first one changes
\* no mark anchor and no base anchor, counts 0 and 0, and returns False.
C1_Idempotent ==
    RanTwice("fix_broken_mark_anchors") =>
        /\ Last.fixed_marks = 0
        /\ Last.fixed_bases = 0
        /\ Last.ret = FALSE
        /\ font = prev

\* A second run right after a first run that changed marks and bases.
C1_Witness ==
    /\ RanTwice("fix_broken_mark_anchors")
    /\ history[Len(history) - 1].fixed_marks > 0
    /\ history[Len(history) - 1].fixed_bases > 0

\* C2: after fix_broken_mark_anchors, in every MarkToBase subtable, every
\* processed base anchor lies strictly above the anchor of every processed
\* above mark of its class index and strictly below the anchor of every
\* processed below mark of its class index, whatever marks share the index.
C2_NonInversion ==
    Ran("fix_broken_mark_anchors") =>
        \A p \in MarkToBasePositions(font) :
            LET st == RealAt(font, p)
            IN  \A m \in DOMAIN st.MarkCoverage, b \in DOMAIN st.BaseCoverage :
                    (/\ ProcessedMark(font, st, m)
                     /\ ProcessedBaseAnchor(font, st, b, st.MarkArray[m].Class))
                    => IF MarkPlacement(font, st, m) = "above"
                       THEN BaseY(st, b, st.MarkArray[m].Class) > MarkY(st, m)
                       ELSE BaseY(st, b, st.MarkArray[m].Class) < MarkY(st, m)

\* C3 as stated: after add_fallback_mark_anchors every combining-mark glyph of
\* the cmap is in the mark coverage of some MarkToBase subtable.
C3_CoverageComplete ==
    Ran("add_fallback_mark_anchors") => CombiningGlyphs(font) \subseteq CoveredMarks(font)

\* C3 amended: after add_fallback_mark_anchors on a font with GPOS and glyf in
\* which some candidate base has an outline and metrics, every combining-mark
\* glyph of the cmap that has an outline and metrics is in the mark coverage
\* of some MarkToBase subtable.
C3_CoverageWhereBuildable ==
    (/\ Ran("add_fallback_mark_anchors")
     /\ HasLayout(prev)
     /\ \E g \in base_glyphs(prev) : g \in DOMAIN prev.glyf /\ g \in DOMAIN prev.hmtx)
    => \A g \in CombiningGlyphs(font) :
          (g \in DOMAIN font.glyf /\ g \in DOMAIN font.hmtx) => g \in CoveredMarks(font)

\* The builder added a lookup for marks that nothing covered before.
C3_Witness ==
    /\ Ran("add_fallback_mark_anchors")
    /\ Last.ret
    /\ \E g \in CombiningGlyphs(prev) : g \notin CoveredMarks(prev) /\ g \in CoveredMarks(font)

\* C4: each classifier answers below (1) exactly for the classes 202, 214,
\* 218, 220, 222-226, overlay (2) exactly for 1 and 200, above (0) for every
\* other class, and the two copies agree on every codepoint.
C4_ClassificationTotal ==
    /\ \A o \in output :
          /\ o[2] \in {0, 1, 2}
          /\ (o[2] = 1) <=> (Placement(input.cp) = "below")
          /\ (o[2] = 2) <=> (Placement(input.cp) = "overlay")
          /\ (o[2] = 0) <=> (Placement(input.cp) = "above")
    /\ \A o1, o2 \in output : o1[2] = o2[2]

\* Both copies have classified a codepoint of the attached-below class 202.
C4_Witness ==
    /\ Cardinality(output) = 2
    /\ combining(input.cp) = 202

\* C5: after fix_gdef_mark_classes on a font with GDEF and a GlyphClassDef,
\* every combining-mark glyph of the cmap has GDEF class 3; without GDEF or
\* without GlyphClassDef the call returns False and changes nothing.
C5_GdefConsistent ==
    Ran("fix_gdef_mark_classes") =>
        IF "GDEF" \in prev.tables /\ prev.GDEF.GlyphClassDef # NoTable
        THEN \A g \in CombiningGlyphs(font) :
                /\ g \in DOMAIN font.GDEF.GlyphClassDef.classDefs
                /\ font.GDEF.GlyphClassDef.classDefs[g] = 3
        ELSE Last.ret = FALSE /\ ~Last.raised /\ font = prev

\* The synchronizer reclassed a mark that GDEF had classed as something else.
C5_Witness ==
    /\ Ran("fix_gdef_mark_classes")
    /\ Last.ret
    /\ \E g \in CombiningGlyphs(prev) :
          /\ g \in DOMAIN prev.GDEF.GlyphClassDef.classDefs
          /\ prev.GDEF.GlyphClassDef.classDefs[g] # 3

\* C6: on a font without GPOS or without glyf, fix_broken_mark_anchors,
\* add_fallback_mark_anchors and add_dotted_circle_fallback each return
\* False, raise nothing and leave the font as it was.
C6_NoLayoutNoChange ==
    (/\ Len(history) >= 1
     /\ Last.op \in {"fix_broken_mark_anchors", "add_fallback_mark_anchors",
                     "add_dotted_circle_fallback"}
     /\ ~HasLayout(prev))
    => (Last.ret = FALSE /\ ~Last.raised /\ font = prev)

\* The fallback builder has run on a font that has marks but no GPOS.
C6_Witness ==
    /\ Ran("add_fallback_mark_anchors")
    /\ "GPOS" \notin prev.tables
    /\ CombiningGlyphs(prev) # {}

\* The subtables of the example: acutecomb (bounds 600..750, above) the one
\* mark, a (bounds 0..500) a base, the stored anchors of the pair at Y 0.
C7_Positions ==
    {p \in MarkToBasePositions(prev) :
        LET st == RealAt(prev, p)
        IN  /\ st.MarkCoverage = <<"acutecomb">>
            /\ "a" \in Range(st.BaseCoverage)
            /\ ProcessedMark(prev, st, 1)
            /\ MarkPlacement(prev, st, 1) = "above"
            /\ ProcessedBaseAnchor(prev, st, IndexOf(st.BaseCoverage, "a"),
                                   st.MarkArray[1].Class)
            /\ MarkY(st, 1) = 0
            /\ BaseY(st, IndexOf(st.BaseCoverage, "a"), st.MarkArray[1].Class) = 0
            /\ EffectiveBounds(prev.glyf, "a").yMin = 0
            /\ EffectiveBounds(prev.glyf, "a").yMax = 500
            /\ EffectiveBounds(prev.glyf, "acutecomb").yMin = 600
            /\ EffectiveBounds(prev.glyf, "acutecomb").yMax = 750}

C7_AnchorsAre(markY, baseY) ==
    Ran("fix_broken_mark_anchors") =>
        \A p \in C7_Positions :
            LET st == RealAt(font, p)
            IN  /\ MarkY(st, 1) = markY
                /\ BaseY(st, IndexOf(st.BaseCoverage, "a"), st.MarkArray[1].Class) = baseY

\* C7 as stated: in the example the repair leaves the mark anchor at Y 600 and
\* the base anchor at Y 560.
C7_ExampleAsStated == C7_AnchorsAre(600, 560)

\* C7 amended: in the example the repair leaves the mark anchor at Y 600 and
\* the base anchor at Y 601, one unit past the mark anchor, because 500 + 60
\* does not clear 600.
C7_ExampleClamped == C7_AnchorsAre(600, 601)

\* The repair has run on a font that holds the example.
C7_Witness == Ran("fix_broken_mark_anchors") /\ C7_Positions # {}

\* C8: in the lookup that add_fallback_mark_anchors appends, every base anchor
\* of the above class lies strictly above the anchor of every above mark and
\* every base anchor of the below class strictly below the anchor of every
\* below mark.
C8_FallbackStacking ==
    (/\ Ran("add_fallback_mark_anchors")
     /\ HasLayout(prev)
     /\ Len(font.GPOS.LookupList) > Len(prev.GPOS.LookupList))
    => LET st == font.GPOS.LookupList[Len(font.GPOS.LookupList)].SubTable[1]
       IN  \A m \in DOMAIN st.MarkCoverage, b \in DOMAIN st.BaseCoverage :
              /\ st.MarkArray[m].Class = 0 => BaseY(st, b, 0) > MarkY(st, m)
              /\ st.MarkArray[m].Class = 1 => BaseY(st, b, 1) < MarkY(st, m)

\* A GPOS table with the Y coordinate of every anchor of every MarkToBase
\* subtable set to 0: all that fix_broken_mark_anchors may not touch.
EraseAnchorY(a) == IF a = NoAnchor THEN a ELSE [a EXCEPT !.YCoordinate = 0]

EraseSubtableY(st) ==
    [st EXCEPT
        !.MarkArray = [i \in DOMAIN st.MarkArray |->
            [st.MarkArray[i] EXCEPT !.MarkAnchor = EraseAnchorY(@)]],
        !.BaseArray = [i \in DOMAIN st.BaseArray |->
            [st.BaseArray[i] EXCEPT !.BaseAnchor =
                [c \in DOMAIN st.BaseArray[i].BaseAnchor |->
                    EraseAnchorY(st.BaseArray[i].BaseAnchor[c])]]]]

EraseY(gpos) ==
    [gpos EXCEPT !.LookupList =
        [i \in DOMAIN gpos.LookupList |->
            [gpos.LookupList[i] EXCEPT !.SubTable =
                [j \in DOMAIN gpos.LookupList[i].SubTable |->
                    LET lookup == gpos.LookupList[i]
                        st == lookup.SubTable[j]
                    IN  IF ~ProcessesSubtable(lookup, st) THEN st
                        ELSE IF IsExtension(lookup, st)
                        THEN [st EXCEPT !.ExtSubTable = EraseSubtableY(@)]
                        ELSE EraseSubtableY(st)]]]]

\* The glyph table keeps its glyphs and their outlines; a cached bounding box
\* stays, or was missing and now holds the bounds of the outline.
OutlinesKept(old, new) ==
    /\ DOMAIN new = DOMAIN old
    /\ \A g \in DOMAIN old :
          /\ new[g].outline = old[g].outline
          /\ \/ new[g].bounds = old[g].bounds
             \/ old[g].bounds = NoBounds /\ new[g].bounds = old[g].outline

\* C9: fix_broken_mark_anchors changes nothing of the font but Y coordinates
\* of anchors of MarkToBase subtables (direct or wrapped): anchor X,
\* coverages, record arrays, class indices, lookup and feature lists,
\* subtables of other types, cmap, metrics, outlines and GDEF stay.
C9_RepairFrame ==
    Ran("fix_broken_mark_anchors") =>
        /\ font.tables = prev.tables
        /\ font.cmap = prev.cmap
        /\ font.glyphOrder = prev.glyphOrder
        /\ font.hmtx = prev.hmtx
        /\ font.GDEF = prev.GDEF
        /\ IF HasLayout(prev)
           THEN /\ EraseY(font.GPOS) = EraseY(prev.GPOS)
                /\ OutlinesKept(prev.glyf, font.glyf)
           ELSE font = prev

\* The repair changed anchors of a font whose MarkToBase subtable is wrapped
\* in an extension lookup and has a pair-positioning lookup next to it.
C9_Witness ==
    /\ Ran("fix_broken_mark_anchors")
    /\ Last.fixed_marks > 0
    /\ Last.fixed_bases > 0
    /\ \E i \in DOMAIN prev.GPOS.LookupList : prev.GPOS.LookupList[i].LookupType = 9
    /\ \E i \in DOMAIN prev.GPOS.LookupList : prev.GPOS.LookupList[i].LookupType = 2

\* The class indices of a subtable none of whose marks with a codepoint is
\* anything but an overlay mark.
OverlayOnlyClasses(f, st) ==
    {c \in 0..2 :
        \A m \in DOMAIN st.MarkCoverage :
            (st.MarkArray[m].Class = c /\ st.MarkCoverage[m] \in DOMAIN name_to_cp(f.cmap))
            => MarkPlacement(f, st, m) = "overlay"}

\* C10: fix_broken_mark_anchors leaves the anchor of every overlay mark as it
\* was, and leaves every base anchor of a class index whose marks with a
\* codepoint are all overlay marks as it was.
C10_OverlayUntouched ==
    Ran("fix_broken_mark_anchors") =>
        \A p \in MarkToBasePositions(prev) :
            LET old == RealAt(prev, p)
                new == RealAt(font, p)
            IN  /\ \A m \in DOMAIN old.MarkCoverage :
                      (/\ old.MarkCoverage[m] \in DOMAIN name_to_cp(prev.cmap)
                       /\ MarkPlacement(prev, old, m) = "overlay")
                      => new.MarkArray[m] = old.MarkArray[m]
                /\ \A c \in OverlayOnlyClasses(prev, old), b \in DOMAIN old.BaseCoverage :
                      c < Len(old.BaseArray[b].BaseAnchor) =>
                          new.BaseArray[b].BaseAnchor[c + 1] = old.BaseArray[b].BaseAnchor[c + 1]

\* The repair changed anchors of a subtable that holds an overlay mark whose
\* anchor is not where an above or a below mark's would be put, with a base
\* anchor for the overlay mark's class.
C10_Witness ==
    /\ Ran("fix_broken_mark_anchors")
    /\ Last.fixed_marks > 0
    /\ Last.fixed_bases > 0
    /\ \E p \in MarkToBasePositions(prev) :
          LET old == RealAt(prev, p)
          IN  \E m \in DOMAIN old.MarkCoverage, b \in DOMAIN old.BaseCoverage :
                /\ old.MarkCoverage[m] \in DOMAIN name_to_cp(prev.cmap)
                /\ MarkPlacement(prev, old, m) = "overlay"
                /\ MarkY(old, m) # EffectiveBounds(prev.glyf, old.MarkCoverage[m]).yMin
                /\ MarkY(old, m) # EffectiveBounds(prev.glyf, old.MarkCoverage[m]).yMax
                /\ old.MarkArray[m].Class \in OverlayOnlyClasses(prev, old)
                /\ ProcessedBaseAnchor(prev, old, b, old.MarkArray[m].Class)

\* Mark glyph g has an anchor on the dotted circle of f: some MarkToBase
\* subtable holds g as a mark and the dotted circle as a base with an anchor
\* at the class index of g.
AnchoredOnDottedCircle(f, g) ==
    \E p \in MarkToBasePositions(f) :
        LET st == RealAt(f, p)
        IN  \E m \in DOMAIN st.MarkCoverage, b \in DOMAIN st.BaseCoverage :
              /\ st.MarkCoverage[m] = g
              /\ st.BaseCoverage[b] = dotted_glyph(f.cmap)
              /\ st.MarkArray[m].Class < Len(st.BaseArray[b].BaseAnchor)
              /\ st.BaseArray[b].BaseAnchor[st.MarkArray[m].Class + 1] # NoAnchor

\* C11: after add_dotted_circle_fallback on a font with GPOS, glyf and a
\* dotted-circle glyph in glyf, every combining-mark glyph of the cmap has an
\* anchor on the dotted circle.
C11_DottedCircleComplete ==
    (/\ Ran("add_dotted_circle_fallback")
     /\ HasLayout(prev)
     /\ dotted_glyph(prev.cmap) \in DOMAIN prev.glyf)
    => \A g \in CombiningGlyphs(font) : AnchoredOnDottedCircle(font, g)

\* The call appended one lookup to the lookup list.
AppendedLookup == Len(font.GPOS.LookupList) = Len(prev.GPOS.LookupList) + 1

\* The zero-based index of the last lookup is listed by a `mark` feature.
LastLookupInMarkFeature(gpos) ==
    \E i \in DOMAIN gpos.FeatureList :
        /\ gpos.FeatureList[i].FeatureTag = "mark"
        /\ (Len(gpos.LookupList) - 1) \in Range(gpos.FeatureList[i].LookupListIndex)

\* C12: whenever add_fallback_mark_anchors or add_dotted_circle_fallback
\* returns True, the lookup it appended is the last of the lookup list, all
\* earlier lookups are as they were, and its index is listed by a feature
\* record tagged `mark`, also when the font had no such record before.
C12_MarkFeatureRegistered ==
    (/\ Len(history) >= 1
     /\ Last.op \in {"add_fallback_mark_anchors", "add_dotted_circle_fallback"}
     /\ Last.ret)
    => /\ AppendedLookup
       /\ SubSeq(font.GPOS.LookupList, 1, Len(prev.GPOS.LookupList)) = prev.GPOS.LookupList
       /\ LastLookupInMarkFeature(font.GPOS)

\* The marks that the MarkToBase subtables of the lookups of the `mark`
\* features of f cover.
EngineeredMarks(f) ==
    UNION {Range(RealAt(f, p).MarkCoverage) :
            p \in {q \in MarkToBasePositions(f) :
                    \E i \in DOMAIN f.GPOS.FeatureList :
                        /\ f.GPOS.FeatureList[i].FeatureTag = "mark"
                        /\ (q[1] - 1) \in Range(f.GPOS.FeatureList[i].LookupListIndex)}}

\* C13: no glyph that a MarkToBase subtable of a lookup of a `mark` feature
\* covered as a mark before add_fallback_mark_anchors is in the mark coverage
\* of the lookup that the call appends.
C13_EngineeredKept ==
    (/\ Ran("add_fallback_mark_anchors")
     /\ HasLayout(prev)
     /\ AppendedLookup)
    => \A j \in DOMAIN font.GPOS.LookupList[Len(font.GPOS.LookupList)].SubTable :
          Range(font.GPOS.LookupList[Len(font.GPOS.LookupList)].SubTable[j].MarkCoverage)
              \cap EngineeredMarks(prev) = {}

\* The builder appended a lookup to a font in which a `mark` feature already
\* covered some mark.
C13_Witness ==
    /\ Ran("add_fallback_mark_anchors")
    /\ Last.ret
    /\ AppendedLookup
    /\ EngineeredMarks(prev) # {}

(***************************************************************************)
(* The geometry accessor on its own: get_glyph_bounds of the repair        *)
(* engine, called once for one glyph name on a font that passed the guard  *)
(* of lines 444-445.  output holds <<function, answer>>.                   *)
(***************************************************************************)
BoundsInputs ==
    {".notdef", "a", "dottedcircle", "acutecomb", "dotbelowcomb", "uni0338",
     "gravecomb.case", "glyph00099"}

InitBounds ==
    /\ font \in {f \in Fonts : "GPOS" \in f.tables /\ "glyf" \in f.tables}
    /\ prev = font
    /\ history = <<>>
    /\ input \in {[fn |-> "get_glyph_bounds", name |-> n] : n \in BoundsInputs}
    /\ output = NoOutput

BoundsAnswer(r) == [k \in DOMAIN r \ {"glyf"} |-> r[k]]

GetGlyphBounds ==
    /\ output = NoOutput
    /\ output' = {<<"get_glyph_bounds",
                    BoundsAnswer(get_glyph_bounds(font.glyf, input.name))>>}
    /\ prev' = font
    /\ font' = [font EXCEPT !.glyf = get_glyph_bounds(font.glyf, input.name).glyf]
    /\ UNCHANGED <<history, input>>

NextBounds == GetGlyphBounds

SpecBounds == InitBounds /\ [][NextBounds]_vars

\* C14: for a glyph of the outline table get_glyph_bounds answers the yMin and
\* yMax of the glyph's outline, whatever its cached bounds were; for a glyph
\* the outline table does not hold it answers no bounds.
C14_BoundsRecomputed ==
    \A o \in output :
        o[1] = "get_glyph_bounds" =>
            IF input.name \in DOMAIN prev.glyf
            THEN /\ ~o[2].none
                 /\ o[2].ymin = prev.glyf[input.name].outline.yMin
                 /\ o[2].ymax = prev.glyf[input.name].outline.yMax
            ELSE o[2].none

(***************************************************************************)
(* The bulk drivers: main of post_process_parallel.py (a pool of workers,  *)
(* one task per font) and main of fix_fonts.py (a loop over the command    *)
(* line).  input.fonts gives, per font path 1..n, what becomes of it: "ok" *)
(* and "fail" are post_process_font returning True and False, "missing" a  *)
(* path with no file.  history is the log of what the run did, output the  *)
(* results it collected.                                                   *)
(***************************************************************************)
MaxFonts == 3

BatchInputs ==
    {[fn |-> "main", driver |-> d, fonts |-> fs] :
        d \in {"post_process_parallel", "fix_fonts"},
        fs \in UNION {[1..n -> {"ok", "fail", "missing"}] : n \in 0..MaxFonts}}

\* fix_fonts.py takes one path or more (nargs='+', line 1598).
InitBatch ==
    /\ font = NoTable
    /\ prev = NoTable
    /\ history = <<>>
    /\ input \in {b \in BatchInputs : b.driver = "fix_fonts" => Len(b.fonts) >= 1}
    /\ output = NoOutput

Exited == \E k \in DOMAIN history : history[k].ev = "exit"

Visited == {history[k].path : k \in {j \in DOMAIN history : history[j].ev \in {"attempt", "not_found"}}}

\* post_process_font on path i as the drivers see it: its boolean result.
\* A path whose file is gone makes TTFont raise inside the try of line 1499.
post_process_result(i) == input.fonts[i] = "ok"

\* post_process_parallel.py lines 64-69: no font found.
ParallelNoFonts ==
    /\ input.driver = "post_process_parallel"
    /\ Len(input.fonts) = 0
    /\ ~Exited
    /\ history' = Append(history, [ev |-> "exit", status |-> 1])
    /\ UNCHANGED <<font, prev, input, output>>

\* process_and_copy_font (lines 18-57) in some worker of the pool, on a task
\* that no worker took yet.
ProcessAndCopyFont ==
    /\ input.driver = "post_process_parallel"
    /\ ~Exited
    /\ \E i \in DOMAIN input.fonts \ Visited :
          /\ history' = Append(history, [ev |-> "attempt", path |-> i,
                                         success |-> post_process_result(i)])
          /\ output' = output \cup {<<"results", i, post_process_result(i)>>}
    /\ UNCHANGED <<font, prev, input>>

RECURSIVE FailedReports(_, _)
FailedReports(fonts, i) ==
    IF i > Len(fonts) THEN <<>>
    ELSE (IF <<"results", i, FALSE>> \in output
          THEN <<[ev |-> "report_failed", path |-> i]>> ELSE <<>>)
         \o FailedReports(fonts, i + 1)

parallel_exit_status(failed) == IF failed > 0 THEN 1 ELSE 0

\* post_process_parallel.py lines 85-102: pool.map has every result; the
\* summary lists the failed paths and exits.
ParallelSummary ==
    /\ input.driver = "post_process_parallel"
    /\ Len(input.fonts) > 0
    /\ ~Exited
    /\ Visited = DOMAIN input.fonts
    /\ history' = history \o FailedReports(input.fonts, 1)
                    \o <<[ev |-> "exit",
                          status |-> parallel_exit_status(
                              Cardinality({o \in output : o[3] = FALSE}))]>>
    /\ UNCHANGED <<font, prev, input, output>>

\* fix_fonts.py lines 1616-1626: the next path of the loop.
SerialFont ==
    /\ input.driver = "fix_fonts"
    /\ ~Exited
    /\ Cardinality(Visited) < Len(input.fonts)
    /\ LET i == Cardinality(Visited) + 1
       IN  IF input.fonts[i] = "missing"
           THEN /\ history' = Append(history, [ev |-> "not_found", path |-> i])
                /\ UNCHANGED output
           ELSE /\ history' = Append(history, [ev |-> "attempt", path |-> i,
                                               success |-> post_process_result(i)])
                /\ output' = output \cup {<<"results", i, post_process_result(i)>>}
    /\ UNCHANGED <<font, prev, input>>

serial_exit_status_any(success_count, total_count) == IF success_count > 0 THEN 0 ELSE 1

serial_exit_status(success_count, total_count) == IF success_count = total_count THEN 0 ELSE 1

\* fix_fonts.py lines 1628-1632.
SerialExit ==
    /\ input.driver = "fix_fonts"
    /\ ~Exited
    /\ Cardinality(Visited) = Len(input.fonts)
    /\ history' = Append(history,
            [ev |-> "exit",
             status |-> serial_exit_status(Cardinality({o \in output : o[3] = TRUE}),
                                           Len(input.fonts))])
    /\ UNCHANGED <<font, prev, input, output>>

NextBatch ==
    \/ ParallelNoFonts
    \/ ProcessAndCopyFont
    \/ ParallelSummary
    \/ SerialFont
    \/ SerialExit

SpecBatch == InitBatch /\ [][NextBatch]_vars

\* The positions of the log that hold an event of kind ev for path i.
EventsOf(ev, i) == {k \in DOMAIN history : history[k].ev = ev /\ history[k].path = i}

Attempts == {k \in DOMAIN history : history[k].ev \in {"attempt", "not_found"}}

FailedFonts == {i \in DOMAIN input.fonts : input.fonts[i] # "ok"}

ExitStatus == history[CHOOSE k \in DOMAIN history : history[k].ev = "exit"].status

\* Every input font was taken up exactly once: attempted, or found missing.
EachFontOnce ==
    \A i \in DOMAIN input.fonts :
        Cardinality(EventsOf("attempt", i) \cup EventsOf("not_found", i)) = 1

\* Every failed font, and no other, is reported once, after every attempt.
FailedReportedAtEnd ==
    \A i \in DOMAIN input.fonts :
        /\ Cardinality(EventsOf("report_failed", i)) = (IF i \in FailedFonts THEN 1 ELSE 0)
        /\ \A k \in EventsOf("report_failed", i), a \in Attempts : a < k

\* C15 as stated: when a bulk run exits, every input font was attempted
\* exactly once, the failed paths were reported after all attempts, and the
\* exit status is non-zero exactly when some font failed.
C15_BatchIsolation ==
    Exited =>
        /\ EachFontOnce
        /\ FailedReportedAtEnd
        /\ (ExitStatus # 0) <=> (FailedFonts # {})

\* C15 amended: when a bulk run exits, every input font was taken up exactly
\* once; the exit status is non-zero exactly when some font failed or was
\* missing or, in post_process_parallel, when there was no input font; the
\* parallel driver reports the failed paths after all attempts, while
\* fix_fonts reports a missing file when it meets it and no failed path
\* afterwards.
C15_BatchIsolationPerDriver ==
    Exited =>
        /\ EachFontOnce
        /\ (ExitStatus # 0) <=>
              (FailedFonts # {}
               \/ (input.driver = "post_process_parallel" /\ Len(input.fonts) = 0))
        /\ IF input.driver = "post_process_parallel"
           THEN FailedReportedAtEnd
           ELSE \A k \in DOMAIN history : history[k].ev # "report_failed"

\* A run of fix_fonts over three fonts, the first missing, the second
\* failing, the third succeeding, has exited.
C15_Witness ==
    /\ Exited
    /\ input.driver = "fix_fonts"
    /\ input.fonts = <<"missing", "fail", "ok">>

(***************************************************************************)
(* The per-font driver: process_and_copy_font calling post_process_font.   *)
(* font is the TTFont in memory, with the tables the anchor components     *)
(* read as the steps before line 1550 leave them.  The steps that work on  *)
(* other tables are taken by their outcome: input.changed names those that *)
(* return True, input.raises the one that raises ("none": none does).      *)
(* history logs the steps run, output holds the names appended to          *)
(* fixes_applied, the font written to output_path, the value returned and  *)
(* the result of process_and_copy_font.                                    *)
(***************************************************************************)
\* The pipeline with the fallback builder after the dotted-circle fallback.
Steps_dotted_first ==
    <<"mkdir", "TTFont",
      "fix_font_revision", "fix_copyright_notice", "fix_windows_metrics",
      "fix_vertical_metrics", "fix_fontbakery_version", "fix_zero_width_glyphs",
      "fix_font_names", "fix_dotted_circle", "flatten_nested_components",
      "normalize_simple_glyphs", "gftools_fix_font", "fix_panose_monospace",
      "fix_license_entries", "fix_style_bits", "drop_glyph_names",
      "fix_broken_mark_anchors", "add_dotted_circle_fallback",
      "add_fallback_mark_anchors", "fix_gdef_mark_classes",
      "add_kerning_feature", "remove_unwanted_tables", "save">>

Steps ==
    <<"mkdir", "TTFont",
      "fix_font_revision", "fix_copyright_notice", "fix_windows_metrics",
      "fix_vertical_metrics", "fix_fontbakery_version", "fix_zero_width_glyphs",
      "fix_font_names", "fix_dotted_circle", "flatten_nested_components",
      "normalize_simple_glyphs", "gftools_fix_font", "fix_panose_monospace",
      "fix_license_entries", "fix_style_bits", "drop_glyph_names",
      "fix_broken_mark_anchors", "add_fallback_mark_anchors",
      "add_dotted_circle_fallback", "fix_gdef_mark_classes",
      "add_kerning_feature", "remove_unwanted_tables", "save">>

AnchorSteps ==
    {"fix_broken_mark_anchors", "add_fallback_mark_anchors",
     "add_dotted_circle_fallback", "fix_gdef_mark_classes"}

\* The steps that return True on every font (lines 46, 63, 72, 95, 188, 413,
\* 1001) and gftools_fix_font, whose name is appended without a test (1536).
AlwaysApplied ==
    {"fix_font_revision", "fix_copyright_notice", "fix_windows_metrics",
     "fix_vertical_metrics", "fix_fontbakery_version", "fix_font_names",
     "fix_style_bits", "gftools_fix_font"}

SometimesApplied ==
    {"fix_zero_width_glyphs", "fix_dotted_circle", "flatten_nested_components",
     "normalize_simple_glyphs", "fix_panose_monospace", "fix_license_entries",
     "drop_glyph_names", "add_kerning_feature", "remove_unwanted_tables"}

\* The name that post_process_font appends to fixes_applied for a step.
fix_name(step) ==
    CASE step = "fix_font_revision" -> "font_revision"
      [] step = "fix_copyright_notice" -> "copyright_notice"
      [] step = "fix_windows_metrics" -> "windows_metrics"
      [] step = "fix_vertical_metrics" -> "vertical_metrics"
      [] step = "fix_fontbakery_version" -> "fontbakery_metadata"
      [] step = "fix_zero_width_glyphs" -> "zero_width_glyphs"
      [] step = "fix_font_names" -> "font_names"
      [] step = "fix_dotted_circle" -> "dotted_circle"
      [] step = "flatten_nested_components" -> "flattened_components"
      [] step = "normalize_simple_glyphs" -> "normalized_glyf_flags"
      [] step = "gftools_fix_font" -> "gftools_fix_font"
      [] step = "fix_panose_monospace" -> "panose_monospace"
      [] step = "fix_license_entries" -> "license_entries"
      [] step = "fix_style_bits" -> "style_bits"
      [] step = "drop_glyph_names" -> "stripped_glyph_names"
      [] step = "fix_broken_mark_anchors" -> "fixed_broken_mark_anchors"
      [] step = "add_fallback_mark_anchors" -> "fallback_mark_anchors"
      [] step = "add_dotted_circle_fallback" -> "dotted_circle_fallback"
      [] step = "fix_gdef_mark_classes" -> "gdef_mark_classes"
      [] step = "add_kerning_feature" -> "kerning"
      [] step = "remove_unwanted_tables" -> "removed_tables"

DriverInputs ==
    {[fn |-> "process_and_copy_font", changed |-> c, raises |-> x] :
        c \in {{}, {"fix_zero_width_glyphs", "add_kerning_feature"}, SometimesApplied},
        x \in {"none", "mkdir", "TTFont", "fix_font_names", "gftools_fix_font",
               "add_kerning_feature", "save"}}

InitDriver ==
    /\ font \in Fonts
    /\ prev = font
    /\ history = <<>>
    /\ input \in DriverInputs
    /\ output = NoOutput

Returned == \E o \in output : o[1] = "return"
Resulted == \E o \in output : o[1] = "result"

\* The step the driver is at: the one after those logged.
NextStep == Steps[Len(history) + 1]

\* A driver that catches the exception of a step and goes on to the next.
StepDone_goes_on(step, r) ==
    /\ prev' = font
    /\ font' = r.font
    /\ history' = Append(history, [op |-> step, ret |-> r.ret, raised |-> r.raised])
    /\ output' = IF r.ret /\ ~r.raised
                 THEN output \cup {<<"fixes_applied", fix_name(step)>>}
                 ELSE output
    /\ UNCHANGED input

\* One step has run with outcome r = [font, ret, raised]: an exception ends
\* post_process_font with False (lines 1585-1589); a True result appends
\* the step's name to fixes_applied.
StepDone(step, r) ==
    /\ prev' = font
    /\ font' = r.font
    /\ history' = Append(history, [op |-> step, ret |-> r.ret, raised |-> r.raised])
    /\ output' = IF r.raised THEN output \cup {<<"return", FALSE>>}
                 ELSE IF r.ret THEN output \cup {<<"fixes_applied", fix_name(step)>>}
                 ELSE output
    /\ UNCHANGED input

\* process_and_copy_font lines 28-45: the output path; a failing mkdir ends
\* the call with (False, font_path, None) (lines 52-57).
PrepareOutputPath ==
    /\ ~Resulted /\ ~Returned
    /\ NextStep = "mkdir"
    /\ history' = Append(history, [op |-> "mkdir", ret |-> FALSE,
                                   raised |-> input.raises = "mkdir"])
    /\ output' = IF input.raises = "mkdir" THEN {<<"result", FALSE>>} ELSE output
    /\ UNCHANGED <<font, prev, input>>

\* A step of post_process_font that works on tables outside the model.
OtherStep ==
    /\ ~Resulted /\ ~Returned
    /\ NextStep \notin AnchorSteps \cup {"mkdir", "save"}
    /\ StepDone(NextStep,
                [font |-> font,
                 ret |-> input.raises # NextStep
                         /\ NextStep \in AlwaysApplied \cup input.changed,
                 raised |-> input.raises = NextStep])

\* Lines 1550-1560.
RepairStep ==
    /\ ~Resulted /\ ~Returned
    /\ NextStep = "fix_broken_mark_anchors"
    /\ StepDone(NextStep, fix_broken_mark_anchors(font))

FallbackStep ==
    /\ ~Resulted /\ ~Returned
    /\ NextStep = "add_fallback_mark_anchors"
    /\ StepDone(NextStep, add_fallback_mark_anchors(font))

DottedCircleStep ==
    /\ ~Resulted /\ ~Returned
    /\ NextStep = "add_dotted_circle_fallback"
    /\ StepDone(NextStep, add_dotted_circle_fallback(font))

GdefStep ==
    /\ ~Resulted /\ ~Returned
    /\ NextStep = "fix_gdef_mark_classes"
    /\ StepDone(NextStep, fix_gdef_mark_classes(font))

\* Lines 1576-1583: font.save(output_path), then return True.
SaveStep ==
    /\ ~Resulted /\ ~Returned
    /\ NextStep = "save"
    /\ history' = Append(history, [op |-> "save", ret |-> input.raises # "save",
                                   raised |-> input.raises = "save"])
    /\ output' = IF input.raises = "save"
                 THEN output \cup {<<"return", FALSE>>}
                 ELSE output \cup {<<"saved", font>>, <<"return", TRUE>>}
    /\ UNCHANGED <<font, prev, input>>

\* process_and_copy_font lines 48-50: (success, font_path, output_path).
CopyResult ==
    /\ Returned /\ ~Resulted
    /\ output' = output \cup {<<"result", <<"return", TRUE>> \in output>>}
    /\ UNCHANGED <<font, prev, history, input>>

NextDriver ==
    \/ PrepareOutputPath
    \/ OtherStep
    \/ RepairStep
    \/ FallbackStep
    \/ DottedCircleStep
    \/ GdefStep
    \/ SaveStep
    \/ CopyResult

SpecDriver == InitDriver /\ [][NextDriver]_vars

\* The positions of the log at which a fix step of post_process_font raised.
RaisedSteps ==
    {k \in DOMAIN history : history[k].raised /\ history[k].op \notin {"mkdir", "save"}}

Saved == \E o \in output : o[1] = "saved"

\* C16: once a fix step of post_process_font has raised, post_process_font
\* has returned False and not True, nothing was written to output_path, and
\* the result of process_and_copy_font, when it is there, is a failure; a
\* font is written only when every step before the save ran without raising.
C16_ErrorBoundary ==
    /\ RaisedSteps # {} =>
          /\ <<"return", FALSE>> \in output
          /\ <<"return", TRUE>> \notin output
          /\ ~Saved
          /\ <<"result", TRUE>> \notin output
          /\ RaisedSteps = {Len(history)}
    /\ Saved =>
          /\ Len(history) = Len(Steps)
          /\ \A k \in DOMAIN history : ~history[k].raised

\* An anchor component raised and process_and_copy_font has given its result.
C16_Witness ==
    /\ \E k \in RaisedSteps : history[k].op \in AnchorSteps
    /\ <<"result", FALSE>> \in output

\* The anchor components in the order of the log.
AnchorLog == SelectSeq(history, LAMBDA h : h.op \in AnchorSteps)

AnchorOrder ==
    <<"fix_broken_mark_anchors", "add_fallback_mark_anchors",
      "add_dotted_circle_fallback", "fix_gdef_mark_classes">>

AnchorFixNames ==
    <<"fixed_broken_mark_anchors", "fallback_mark_anchors",
      "dotted_circle_fallback", "gdef_mark_classes">>

\* C18: in every run of post_process_font the anchor components run in the
\* order repair, fallback, dotted circle, GDEF, each at most once; the font
\* is saved only after all four have run; the name of a component is in
\* fixes_applied exactly when the component ran and returned True.
C18_PipelineOrder ==
    /\ Len(AnchorLog) <= 4
    /\ \A k \in DOMAIN AnchorLog : AnchorLog[k].op = AnchorOrder[k]
    /\ Saved => Len(AnchorLog) = 4
    /\ \A k \in 1..4 :
          <<"fixes_applied", AnchorFixNames[k]>> \in output
              <=> (k <= Len(AnchorLog) /\ AnchorLog[k].ret /\ ~AnchorLog[k].raised)

\* A font was saved after the repair engine had changed it and the fallback
\* builder had not.
C18_Witness ==
    /\ Saved
    /\ Len(AnchorLog) = 4
    /\ AnchorLog[1].ret
    /\ ~AnchorLog[2].ret

(***************************************************************************)
(* The shaping test: shape_text of test_harfbuzz_marks.py on a base glyph  *)
(* followed by a mark glyph.  The shaper applies the lookups of the `mark` *)
(* feature in lookup order; the last lookup with a subtable that holds the *)
(* pair and an anchor for the mark's class decides, and the offset of the  *)
(* mark is the base anchor minus the mark anchor.  With no such lookup the *)
(* mark keeps the offset (0, 0).                                           *)
(***************************************************************************)
MarkFeaturePairs(f, base, mark) ==
    {p \in MarkToBasePositions(f) :
        /\ \E i \in DOMAIN f.GPOS.FeatureList :
              /\ f.GPOS.FeatureList[i].FeatureTag = "mark"
              /\ (p[1] - 1) \in Range(f.GPOS.FeatureList[i].LookupListIndex)
        /\ mark \in Range(RealAt(f, p).MarkCoverage)
        /\ base \in Range(RealAt(f, p).BaseCoverage)
        /\ ProcessedBaseAnchor(f, RealAt(f, p), IndexOf(RealAt(f, p).BaseCoverage, base),
              RealAt(f, p).MarkArray[IndexOf(RealAt(f, p).MarkCoverage, mark)].Class)}

AnchorOffset(st, base, mark) ==
    <<st.BaseArray[IndexOf(st.BaseCoverage, base)]
          .BaseAnchor[st.MarkArray[IndexOf(st.MarkCoverage, mark)].Class + 1].XCoordinate
        - st.MarkArray[IndexOf(st.MarkCoverage, mark)].MarkAnchor.XCoordinate,
      st.BaseArray[IndexOf(st.BaseCoverage, base)]
          .BaseAnchor[st.MarkArray[IndexOf(st.MarkCoverage, mark)].Class + 1].YCoordinate
        - st.MarkArray[IndexOf(st.MarkCoverage, mark)].MarkAnchor.YCoordinate>>

shape_text(f, base, mark) ==
    IF MarkFeaturePairs(f, base, mark) = {} THEN <<0, 0>>
    ELSE AnchorOffset(
            RealAt(f, CHOOSE p \in MarkFeaturePairs(f, base, mark) :
                        \A q \in MarkFeaturePairs(f, base, mark) :
                            q[1] < p[1] \/ (q[1] = p[1] /\ q[2] >= p[2])),
            base, mark)

\* get_base_chars and get_combining_marks of the test, on the cmap of f: the
\* letter a, and the marks of the block U+0300-U+036F.
TestedBases(f) == {f.cmap[cp] : cp \in {c \in DOMAIN f.cmap : c = 97}}
TestedMarks(f) == {f.cmap[cp] : cp \in {c \in DOMAIN f.cmap : 768 <= c /\ c <= 879}}

UsableBases(f) ==
    {g \in ({f.cmap[cp] : cp \in DOMAIN f.cmap} \cup Range(f.glyphOrder))
            \ CombiningGlyphs(f) :
        g \in DOMAIN f.glyf /\ g \in DOMAIN f.hmtx}

ExpectedMarkY(f, st, m) ==
    IF MarkPlacement(f, st, m) = "below"
    THEN EffectiveBounds(f.glyf, st.MarkCoverage[m]).yMax
    ELSE EffectiveBounds(f.glyf, st.MarkCoverage[m]).yMin

ClassMarks(f, st, c) ==
    {m \in DOMAIN st.MarkCoverage :
        ProcessedMark(f, st, m) /\ st.MarkArray[m].Class = c}

OnePlacement(f, st, c) ==
    /\ ClassMarks(f, st, c) # {}
    /\ \A m, n \in ClassMarks(f, st, c) :
            MarkPlacement(f, st, m) = MarkPlacement(f, st, n)

ExpectedBaseY(f, st, b, c) ==
    LET ys == {ExpectedMarkY(f, st, m) : m \in ClassMarks(f, st, c)}
        below == \E m \in ClassMarks(f, st, c) : MarkPlacement(f, st, m) = "below"
        bounds == EffectiveBounds(f.glyf, st.BaseCoverage[b])
    IN  IF below
        THEN LET lowest == CHOOSE y \in ys : \A z \in ys : y <= z
             IN  IF bounds.yMin - stack_gap >= lowest THEN lowest - 1 ELSE bounds.yMin - stack_gap
        ELSE LET highest == CHOOSE y \in ys : \A z \in ys : y >= z
             IN  IF bounds.yMax + stack_gap <= highest THEN highest + 1 ELSE bounds.yMax + stack_gap

\* C20: fix_broken_mark_anchors raises nothing, and in every MarkToBase
\* subtable, whatever entries it passes over (a mark without a codepoint, a
\* mark or base without bounds, a class beyond a base record's anchor array,
\* an absent base anchor), every other mark anchor and every other base
\* anchor is repaired, and what it passes over stays as it was.
C20_SkipsOnlyEntry ==
    (Ran("fix_broken_mark_anchors") /\ HasLayout(prev)) =>
        /\ ~Last.raised
        /\ \A p \in MarkToBasePositions(prev) :
            LET old == RealAt(prev, p)
                new == RealAt(font, p)
            IN  /\ \A m \in DOMAIN old.MarkCoverage :
                      IF ProcessedMark(prev, old, m)
                      THEN MarkY(new, m) = ExpectedMarkY(prev, old, m)
                      ELSE new.MarkArray[m] = old.MarkArray[m]
                /\ \A b \in DOMAIN old.BaseCoverage :
                      IF old.BaseCoverage[b] \notin DOMAIN prev.glyf
                      THEN new.BaseArray[b] = old.BaseArray[b]
                      ELSE \A c \in 0..(Len(old.BaseArray[b].BaseAnchor) - 1) :
                              IF old.BaseArray[b].BaseAnchor[c + 1] = NoAnchor
                              THEN new.BaseArray[b].BaseAnchor[c + 1] = NoAnchor
                              ELSE OnePlacement(prev, old, c) =>
                                      BaseY(new, b, c) = ExpectedBaseY(prev, old, b, c)

\* Subtable st of f holds one entry of every kind that the repair passes over.
HoldsEverySkip(f, st) ==
    /\ \E m \in DOMAIN st.MarkCoverage :
            st.MarkCoverage[m] \notin DOMAIN name_to_cp(f.cmap)
    /\ \E m \in DOMAIN st.MarkCoverage :
            /\ st.MarkCoverage[m] \in DOMAIN name_to_cp(f.cmap)
            /\ MarkPlacement(f, st, m) # "overlay"
            /\ st.MarkCoverage[m] \notin DOMAIN f.glyf
    /\ \E b \in DOMAIN st.BaseCoverage : st.BaseCoverage[b] \notin DOMAIN f.glyf
    /\ \E m \in DOMAIN st.MarkCoverage, b \in DOMAIN st.BaseCoverage :
            /\ ProcessedMark(f, st, m)
            /\ st.BaseCoverage[b] \in DOMAIN f.glyf
            /\ st.MarkArray[m].Class >= Len(st.BaseArray[b].BaseAnchor)
    /\ \E m \in DOMAIN st.MarkCoverage, b \in DOMAIN st.BaseCoverage :
            /\ ProcessedMark(f, st, m)
            /\ st.BaseCoverage[b] \in DOMAIN f.glyf
            /\ st.MarkArray[m].Class < Len(st.BaseArray[b].BaseAnchor)
            /\ st.BaseArray[b].BaseAnchor[st.MarkArray[m].Class + 1] = NoAnchor

\* The repair has run on a font whose first MarkToBase subtable holds one
\* entry of every kind that is passed over, and it has moved a mark anchor
\* and a base anchor of that subtable and an anchor of a later subtable.
C20_Witness ==
    /\ Ran("fix_broken_mark_anchors")
    /\ \E p, q \in MarkToBasePositions(prev) :
        /\ p[1] < q[1]
        /\ HoldsEverySkip(prev, RealAt(prev, p))
        /\ RealAt(font, p).MarkArray # RealAt(prev, p).MarkArray
        /\ RealAt(font, p).BaseArray # RealAt(prev, p).BaseArray
        /\ RealAt(font, q) # RealAt(prev, q)

\* The Y of the outline's edge that a processed mark attaches by, and the Y
\* that the anchor of base b for class c has to take from the outlines when
\* the processed marks of the class are all above or all below marks.
OutlineMarkY(f, st, m) ==
    IF MarkPlacement(f, st, m) = "below"
    THEN f.glyf[st.MarkCoverage[m]].outline.yMax
    ELSE f.glyf[st.MarkCoverage[m]].outline.yMin

OutlineBaseY(f, st, b, c) ==
    LET ys == {OutlineMarkY(f, st, m) : m \in ClassMarks(f, st, c)}
        below == \E m \in ClassMarks(f, st, c) : MarkPlacement(f, st, m) = "below"
        base == f.glyf[st.BaseCoverage[b]].outline
    IN  IF below
        THEN LET T == CHOOSE y \in ys : \A z \in ys : y <= z
             IN  IF base.yMin - stack_gap < T THEN base.yMin - stack_gap ELSE T - 1
        ELSE LET T == CHOOSE y \in ys : \A z \in ys : y >= z
             IN  IF base.yMax + stack_gap > T THEN base.yMax + stack_gap ELSE T + 1

\* C21: after fix_broken_mark_anchors every processed above mark has anchor Y
\* equal to its yMin and every processed below mark anchor Y equal to its
\* yMax; every processed base anchor of a class of above marks with maximum T
\* has Y = baseYMax + 60 when that exceeds T and T + 1 otherwise, and of a
\* class of below marks with minimum T has Y = baseYMin - 60 when that is
\* below T and T - 1 otherwise.
C21_PassResults ==
    (Ran("fix_broken_mark_anchors") /\ HasLayout(prev)) =>
        \A p \in MarkToBasePositions(prev) :
            LET old == RealAt(prev, p)
                new == RealAt(font, p)
            IN  /\ \A m \in DOMAIN old.MarkCoverage :
                      ProcessedMark(prev, old, m) =>
                          MarkY(new, m) = OutlineMarkY(prev, old, m)
                /\ \A b \in DOMAIN old.BaseCoverage :
                      \A c \in 0..2 :
                          (ProcessedBaseAnchor(prev, old, b, c)
                           /\ OnePlacement(prev, old, c)) =>
                              BaseY(new, b, c) = OutlineBaseY(prev, old, b, c)

\* The codepoints of the cmap of f that are combining marks of a class
\* (0 above, 1 below, 2 overlay) and whose glyph has an outline, the sum of
\* the heights of their outlines, and the gap of the class.
PlacementClass(cp) ==
    IF Placement(cp) = "below" THEN 1 ELSE IF Placement(cp) = "overlay" THEN 2 ELSE 0

ClassCodepoints(f, cls) ==
    {cp \in DOMAIN f.cmap :
        /\ combining(cp) # 0
        /\ PlacementClass(cp) = cls
        /\ f.cmap[cp] \in DOMAIN f.glyf}

RECURSIVE HeightSum(_, _)
HeightSum(f, cps) ==
    IF cps = {} THEN 0
    ELSE LET cp == CHOOSE c \in cps : TRUE
             o == f.glyf[f.cmap[cp]].outline
         IN  Max(o.yMax - o.yMin, 0) + HeightSum(f, cps \ {cp})

ClassGap(f, cls) ==
    IF ClassCodepoints(f, cls) = {} THEN 60
    ELSE Max(60, (HeightSum(f, ClassCodepoints(f, cls))
                    \div Cardinality(ClassCodepoints(f, cls))) \div 2)

\* The anchor that base g of f has to carry for a class.
FallbackBaseAnchor(f, g, cls) ==
    LET o == f.glyf[g].outline
    IN  buildAnchor(f.hmtx[g] \div 2,
                    IF cls = 0 THEN o.yMax + ClassGap(f, 0)
                    ELSE IF cls = 1 THEN o.yMin - ClassGap(f, 1)
                    ELSE (o.yMin + o.yMax) \div 2)

\* C22: in the lookup that add_fallback_mark_anchors appends, every base
\* carries an anchor for exactly the classes of the lookup's marks, at half
\* the advance and at yMax + gap (above), yMin - gap (below) or the vertical
\* middle (overlay), the gap of a class being max(60, A div 2) for the
\* floored average height A of the cmap's combining marks of the class that
\* glyf holds, and 60 when there is none.
C22_FallbackGap ==
    (/\ Ran("add_fallback_mark_anchors")
     /\ HasLayout(prev)
     /\ AppendedLookup)
    => LET st == font.GPOS.LookupList[Len(font.GPOS.LookupList)].SubTable[1]
           present == {st.MarkArray[m].Class : m \in DOMAIN st.MarkCoverage}
       IN  \A b \in DOMAIN st.BaseCoverage :
              \A k \in DOMAIN st.BaseArray[b].BaseAnchor :
                  IF (k - 1) \in present
                  THEN st.BaseArray[b].BaseAnchor[k]
                         = FallbackBaseAnchor(prev, st.BaseCoverage[b], k - 1)
                  ELSE st.BaseArray[b].BaseAnchor[k] = NoAnchor

(***************************************************************************)
(* fix_zero_width_glyphs on fonts of six glyphs: space, a, the composite   *)
(* aacute, the marks acutecomb (U+0301) and dotbelowcomb (U+0323) and the  *)
(* private-use glyph uniEF06.  A glyph of glyf is its numberOfContours     *)
(* (-1 for a composite); hmtx gives the advance widths.                    *)
(***************************************************************************)
WidthGlyphOrder == <<"space", "a", "aacute", "acutecomb", "dotbelowcomb", "uniEF06">>

WidthCmap ==
    (32 :> "space") @@ (97 :> "a") @@ (225 :> "aacute") @@ (769 :> "acutecomb")
    @@ (803 :> "dotbelowcomb") @@ (61190 :> "uniEF06")

\* space: whether hmtx holds the space; a, acute, pua: advance widths;
\* contours: the contours of the two marks; gdef: the class of the marks in
\* GlyphClassDef ("mark" 3, "base" 1, "unclassed", or no GlyphClassDef).
WidthKnobs ==
    [tables : {{"cmap", "glyf", "hmtx", "GDEF", "hhea"}, {"cmap", "glyf", "hmtx", "hhea"},
               {"cmap", "hmtx", "GDEF", "hhea"}},
     space : BOOLEAN, a : {0, 600}, acute : {0, 300}, pua : {0, 600},
     contours : {0, 1}, gdef : {"mark", "base", "unclassed", "nodef"}]

MakeWidthFont(k) ==
    [tables |-> k.tables,
     cmap |-> WidthCmap,
     glyphOrder |-> WidthGlyphOrder,
     glyf |-> IF "glyf" \in k.tables
              THEN [g \in Range(WidthGlyphOrder) |->
                      [numberOfContours |->
                          CASE g = "space" -> 0
                            [] g = "aacute" -> -1
                            [] g \in {"acutecomb", "dotbelowcomb"} -> k.contours
                            [] OTHER -> 1]]
              ELSE NoTable,
     hmtx |-> [g \in Range(WidthGlyphOrder) \ (IF k.space THEN {} ELSE {"space"}) |->
                 CASE g = "space" -> 600
                   [] g = "a" -> k.a
                   [] g = "acutecomb" -> k.acute
                   [] g = "uniEF06" -> k.pua
                   [] OTHER -> 0],
     GDEF |-> IF "GDEF" \notin k.tables THEN NoTable
              ELSE CASE k.gdef = "mark" ->
                          [GlyphClassDef |-> [classDefs |->
                              ("a" :> 1) @@ ("acutecomb" :> 3) @@ ("dotbelowcomb" :> 3)]]
                     [] k.gdef = "base" ->
                          [GlyphClassDef |-> [classDefs |->
                              ("a" :> 1) @@ ("acutecomb" :> 1) @@ ("dotbelowcomb" :> 1)]]
                     [] k.gdef = "unclassed" ->
                          [GlyphClassDef |-> [classDefs |-> ("a" :> 1)]]
                     [] k.gdef = "nodef" -> [GlyphClassDef |-> NoTable],
     hhea |-> [advanceWidthMax |-> 600]]

\* The glyph has no space entry in hmtx only when the font has no space
\* glyph at all.
WidthFonts ==
    {LET f == MakeWidthFont(k)
     IN  IF k.space THEN f
         ELSE [f EXCEPT !.glyphOrder = Tail(WidthGlyphOrder),
                        !.cmap = [cp \in DOMAIN WidthCmap \ {32} |-> WidthCmap[cp]],
                        !.glyf = IF @ = NoTable THEN @
                                 ELSE [g \in DOMAIN @ \ {"space"} |-> @[g]]]
     : k \in WidthKnobs}

pua_glyphs_to_fix ==
    {"uniEF06", "uniEF07", "uniEF08", "uniEF09", "uniEF0A", "uniEF0B", "uniEF0C"}

RECURSIVE SumOf(_, _)
SumOf(fn, keys) ==
    IF keys = {} THEN 0
    ELSE LET k == CHOOSE x \in keys : TRUE IN fn[k] + SumOf(fn, keys \ {k})

\* Lines 209-214: the width of the space, else the floored average of the
\* positive widths, else 500.
new_width(hmtx) ==
    IF "space" \in DOMAIN hmtx THEN hmtx["space"]
    ELSE LET positive == {g \in DOMAIN hmtx : hmtx[g] > 0}
         IN  IF positive = {} THEN 500
             ELSE SumOf(hmtx, positive) \div Cardinality(positive)

NoCodepoint == [IsNone |-> TRUE]

\* Line 231, table.cmap.get(glyph_name): a cmap subtable is keyed by
\* codepoint, so a look-up by glyph name finds no key and answers None.
cmap_get(cmap, glyph_name) == NoCodepoint

\* Lines 227-237.
is_combining(f, glyph_name) ==
    LET cp == cmap_get(f.cmap, glyph_name)
    IN  \/ cp # NoCodepoint /\ combining(cp) # 0
        \/ /\ f.GDEF # NoTable
           /\ f.GDEF.GlyphClassDef # NoTable
           /\ glyph_name \in DOMAIN f.GDEF.GlyphClassDef.classDefs
           /\ f.GDEF.GlyphClassDef.classDefs[glyph_name] = 3

\* Lines 220-255: the glyphs that get the new width.
zero_width_fixed(f) ==
    {g \in Range(f.glyphOrder) :
        /\ g \in DOMAIN f.glyf
        /\ f.hmtx[g] = 0
        /\ ~is_combining(f, g)
        /\ \/ g \in pua_glyphs_to_fix
           \/ f.glyf[g].numberOfContours > 0}

\* fix_zero_width_glyphs(font): [font, ret, raised].
fix_zero_width_glyphs(f) ==
    IF "hmtx" \notin f.tables \/ "glyf" \notin f.tables
    THEN [font |-> f, ret |-> FALSE, raised |-> FALSE]
    ELSE LET fixed == zero_width_fixed(f)
             hmtx == [g \in DOMAIN f.hmtx |->
                        IF g \in fixed THEN new_width(f.hmtx) ELSE f.hmtx[g]]
             widest == CHOOSE w \in {hmtx[g] : g \in DOMAIN hmtx} :
                          \A g \in DOMAIN hmtx : hmtx[g] <= w
         IN  IF fixed = {}
             THEN [font |-> f, ret |-> FALSE, raised |-> FALSE]
             ELSE [font |-> [f EXCEPT !.hmtx = hmtx,
                                      !.hhea.advanceWidthMax = Max(@, widest)],
                   ret |-> TRUE, raised |-> FALSE]

InitWidth ==
    /\ font \in WidthFonts
    /\ prev = font
    /\ history = <<>>
    /\ input = NoInput
    /\ output = NoOutput

FixZeroWidthGlyphs ==
    /\ Len(history) < MaxCalls
    /\ Finish("fix_zero_width_glyphs", fix_zero_width_glyphs(font))

NextWidth == FixZeroWidthGlyphs

SpecWidth == InitWidth /\ [][NextWidth]_vars

\* C23: fix_zero_width_glyphs leaves the advance width of every glyph that a
\* codepoint of nonzero combining class maps to, and of every glyph of GDEF
\* class 3, as it was, whatever the glyph's contours and GDEF class.
C23_MarksKeepWidth ==
    Ran("fix_zero_width_glyphs") =>
        \A g \in DOMAIN prev.hmtx :
            (\/ g \in CombiningGlyphs(prev)
             \/ /\ prev.GDEF # NoTable
                /\ prev.GDEF.GlyphClassDef # NoTable
                /\ g \in DOMAIN prev.GDEF.GlyphClassDef.classDefs
                /\ prev.GDEF.GlyphClassDef.classDefs[g] = 3)
            => font.hmtx[g] = prev.hmtx[g]

(***************************************************************************)
(* fix_font_names: the weight class and the names it writes, from the file *)
(* name of the font, its italic bits, the family name it carried and the   *)
(* usWeightClass it carried.  A file name is a sequence of characters; a   *)
(* name is the sequence of the parts that the code joins.                  *)
(***************************************************************************)
Spelling(w) ==
    CASE w = "Thin" -> <<"T", "h", "i", "n">>
      [] w = "ExtraLight" -> <<"E", "x", "t", "r", "a", "L", "i", "g", "h", "t">>
      [] w = "Light" -> <<"L", "i", "g", "h", "t">>
      [] w = "Medium" -> <<"M", "e", "d", "i", "u", "m">>
      [] w = "SemiBold" -> <<"S", "e", "m", "i", "B", "o", "l", "d">>
      [] w = "Bold" -> <<"B", "o", "l", "d">>
      [] w = "ExtraBold" -> <<"E", "x", "t", "r", "a", "B", "o", "l", "d">>
      [] w = "Black" -> <<"B", "l", "a", "c", "k">>
      [] w = "Heavy" -> <<"H", "e", "a", "v", "y">>
      [] w = "Regular" -> <<"R", "e", "g", "u", "l", "a", "r">>
      [] w = "Italic" -> <<"I", "t", "a", "l", "i", "c">>
      [] w = "Mono" -> <<"M", "o", "n", "o">>
      [] w = "IosevkaCharon-" -> <<"I", "o", "s", "e", "v", "k", "a", "C", "h", "a", "r", "o", "n", "-">>
      [] w = "IosevkaCharonMono-" -> <<"I", "o", "s", "e", "v", "k", "a", "C", "h", "a", "r", "o", "n", "M", "o", "n", "o", "-">>

\* Python's `needle in hay` for strings.
Contains(hay, needle) ==
    \E i \in 1..(Len(hay) - Len(needle) + 1) :
        SubSeq(hay, i, i + Len(needle) - 1) = needle

WeightNames ==
    {"Thin", "ExtraLight", "Light", "Medium", "SemiBold", "Bold", "ExtraBold",
     "Black", "Heavy"}

\* The fonts of the build: IosevkaCharon[Mono]-<Weight>[Italic].ttf, with
\* Regular as the weight of the file of weight 400 and the bare Italic for
\* its italic.  hint_mono: the family name the font carries holds "Mono".
NameInputs ==
    [fn : {"fix_font_names"},
     prefix : {"IosevkaCharon-", "IosevkaCharonMono-"},
     weight : WeightNames \cup {"Regular"},
     italic : BOOLEAN,
     hint_mono : BOOLEAN,
     usWeightClass : {300, 400, 700}]

\* Line 279: Path(font.reader.file.name).stem.
file_name(in) ==
    Spelling(in.prefix)
    \o (IF in.weight = "Regular" /\ in.italic THEN <<>> ELSE Spelling(in.weight))
    \o (IF in.italic THEN Spelling("Italic") ELSE <<>>)

\* Line 281: the names in the order the loop tries them.
weight_candidates ==
    <<"Heavy", "Light", "Medium", "Bold", "Thin", "ExtraLight", "SemiBold",
      "ExtraBold", "Black">>

NoWeight == "None"

\* Lines 280-284: the first name of the list that the file name contains.
weight_from_name(stem) ==
    LET hits == {i \in DOMAIN weight_candidates :
                    Contains(stem, Spelling(weight_candidates[i]))}
    IN  IF hits = {} THEN NoWeight
        ELSE weight_candidates[CHOOSE i \in hits : \A k \in hits : i <= k]

\* Lines 287-297.
weight_name_to_class ==
    [Thin |-> 100, ExtraLight |-> 200, Light |-> 300, Medium |-> 500,
     SemiBold |-> 600, Bold |-> 700, ExtraBold |-> 800, Black |-> 900,
     Heavy |-> 900]

\* Lines 309-319: weight_display.
weight_map ==
    (100 :> "Thin") @@ (200 :> "Extralight") @@ (300 :> "Light")
    @@ (400 :> "Regular") @@ (500 :> "Medium") @@ (600 :> "Semibold")
    @@ (700 :> "Bold") @@ (800 :> "Extrabold") @@ (900 :> "Heavy")

NoName == <<>>

\* Lines 326-385: the names for a weight class.
names_for(base_family, ps_family, weight_class, is_italic) ==
    LET weight_display == IF weight_class \in DOMAIN weight_map
                          THEN weight_map[weight_class] ELSE "Regular"
    IN  IF weight_class \in {400, 700}
        THEN LET style == IF weight_class = 400
                          THEN (IF is_italic THEN <<"Italic">> ELSE <<"Regular">>)
                          ELSE (IF is_italic THEN <<"Bold", "Italic">> ELSE <<"Bold">>)
             IN  [family_name |-> <<base_family>>,
                  subfamily_name |-> style,
                  full_name |-> <<base_family>> \o style,
                  ps_name |-> <<ps_family, "-">> \o style,
                  typographic_family |-> NoName,
                  typographic_subfamily |-> NoName]
        ELSE [family_name |-> <<base_family, weight_display>>,
              subfamily_name |-> IF is_italic THEN <<"Italic">> ELSE <<"Regular">>,
              full_name |-> <<base_family, weight_display>>
                            \o (IF is_italic THEN <<"Italic">> ELSE <<>>),
              ps_name |-> <<ps_family, "-", weight_display>>
                          \o (IF is_italic THEN <<"Italic">> ELSE <<>>),
              typographic_family |-> <<base_family>>,
              typographic_subfamily |-> <<weight_display>>
                            \o (IF is_italic THEN <<"Italic">> ELSE <<>>)]

\* fix_font_names(font): [usWeightClass, names].
fix_font_names(in) ==
    LET is_mono == in.hint_mono \/ Contains(file_name(in), Spelling("Mono"))
        base_family == IF is_mono THEN "Iosevka Charon Mono" ELSE "Iosevka Charon"
        ps_family == IF is_mono THEN "IosevkaCharonMono" ELSE "IosevkaCharon"
        w == weight_from_name(file_name(in))
        weight_class == IF w # NoWeight THEN weight_name_to_class[w]
                        ELSE in.usWeightClass
    IN  [usWeightClass |-> weight_class,
         names |-> names_for(base_family, ps_family, weight_class, in.italic)]

InitNames ==
    /\ font = NoTable
    /\ prev = NoTable
    /\ history = <<>>
    /\ input \in NameInputs
    /\ output = NoOutput

FixFontNames ==
    /\ output = NoOutput
    /\ output' = {<<"fix_font_names", fix_font_names(input)>>}
    /\ UNCHANGED <<font, prev, history, input>>

NextNames == FixFontNames

SpecNames == InitNames /\ [][NextNames]_vars

\* The weight class of a weight name and the display name of a class.
ClassOfWeight ==
    [Thin |-> 100, ExtraLight |-> 200, Light |-> 300, Medium |-> 500,
     SemiBold |-> 600, Bold |-> 700, ExtraBold |-> 800, Black |-> 900,
     Heavy |-> 900]

DisplayOfClass ==
    (100 :> "Thin") @@ (200 :> "Extralight") @@ (300 :> "Light")
    @@ (500 :> "Medium") @@ (600 :> "Semibold") @@ (700 :> "Bold")
    @@ (800 :> "Extrabold") @@ (900 :> "Heavy")

\* C24: for a file whose weight token is one of the nine weight names,
\* fix_font_names sets usWeightClass to the class of that name and names the
\* family and the style from that class.
C24_WeightFromName ==
    \A o \in output :
        (o[1] = "fix_font_names" /\ input.weight \in WeightNames) =>
            LET class == ClassOfWeight[input.weight]
            IN  /\ o[2].usWeightClass = class
                /\ IF class = 700
                   THEN o[2].names.subfamily_name[1] = "Bold"
                   ELSE /\ o[2].names.family_name[2] = DisplayOfClass[class]
                        /\ o[2].names.typographic_subfamily[1] = DisplayOfClass[class]

(***************************************************************************)
(* semver_to_gf of scripts/sync_version.py.  A version string is a         *)
(* sequence of the characters "0".."9" and ".".                            *)
(***************************************************************************)
DigitChars == <<"0", "1", "2", "3", "4", "5", "6", "7", "8", "9">>

\* The parts the version strings are put together from.
PartStrings ==
    {<<"0">>, <<"2">>, <<"3">>, <<"5">>, <<"9">>, <<"0", "5">>, <<"1", "0">>,
     <<"1", "5">>, <<"3", "3">>, <<"1", "0", "0">>}

RECURSIVE JoinDots(_)
JoinDots(parts) ==
    IF Len(parts) = 0 THEN <<>>
    ELSE IF Len(parts) = 1 THEN parts[1]
    ELSE parts[1] \o <<".">> \o JoinDots(Tail(parts))

\* Versions of three parts, and versions of one, two and four parts.
SemverInputs ==
    {[fn |-> "semver_to_gf", semver |-> JoinDots(<<a, b, c>>)] :
        a \in {<<"2">>, <<"3", "3">>}, b \in PartStrings, c \in PartStrings}
    \cup {[fn |-> "semver_to_gf", semver |-> JoinDots(ps)] :
            ps \in {<<a>> : a \in PartStrings}
                   \cup {<<a, b>> : a \in {<<"3", "3">>}, b \in PartStrings}
                   \cup {<<a, b, b, a>> : a \in {<<"2">>}, b \in PartStrings}}

\* str.split("."): the pieces between the dots.
RECURSIVE split(_, _)
split(str, piece) ==
    IF Len(str) = 0 THEN <<piece>>
    ELSE IF Head(str) = "." THEN <<piece>> \o split(Tail(str), <<>>)
    ELSE split(Tail(str), Append(piece, Head(str)))

\* int(part) for a part of decimal digits.
RECURSIVE int(_)
int(part) ==
    IF Len(part) = 0 THEN 0
    ELSE 10 * int(SubSeq(part, 1, Len(part) - 1))
         + ((CHOOSE d \in DOMAIN DigitChars : DigitChars[d] = part[Len(part)]) - 1)

\* f"{n}": the decimal digits of n.
RECURSIVE format(_)
format(n) ==
    IF n < 10 THEN <<DigitChars[n + 1]>>
    ELSE Append(format(n \div 10), DigitChars[(n % 10) + 1])

\* f"{n:02d}": at least two digits, padded with a zero.
format_02d(n) == IF n < 10 THEN <<"0">> \o format(n) ELSE format(n)

\* semver_to_gf(semver): [raised, value].
semver_to_gf(semver) ==
    LET parts == split(semver, <<>>)
    IN  IF Len(parts) # 3
        THEN [raised |-> "ValueError", value |-> <<>>]
        ELSE IF \E i \in 1..3 : Len(parts[i]) = 0
        THEN [raised |-> "ValueError", value |-> <<>>]
        ELSE [raised |-> "none",
              value |-> format(int(parts[1])) \o <<".">>
                        \o format(int(parts[2])) \o format_02d(int(parts[3]))]

InitVersion ==
    /\ font = NoTable
    /\ prev = NoTable
    /\ history = <<>>
    /\ input \in SemverInputs
    /\ output = NoOutput

SemverToGf ==
    /\ output = NoOutput
    /\ output' = {<<"semver_to_gf", semver_to_gf(input.semver)>>}
    /\ UNCHANGED <<font, prev, history, input>>

NextVersion == SemverToGf

SpecVersion == InitVersion /\ [][NextVersion]_vars

\* The number of dots of a string and the characters after its first dot.
RECURSIVE Dots(_)
Dots(str) ==
    IF Len(str) = 0 THEN 0
    ELSE (IF Head(str) = "." THEN 1 ELSE 0) + Dots(Tail(str))

RECURSIVE AfterDot(_)
AfterDot(str) ==
    IF Len(str) = 0 THEN <<>>
    ELSE IF Head(str) = "." THEN Tail(str) ELSE AfterDot(Tail(str))

RECURSIVE BeforeDot(_)
BeforeDot(str) ==
    IF Len(str) = 0 \/ Head(str) = "." THEN <<>>
    ELSE <<Head(str)>> \o BeforeDot(Tail(str))

\* C25: semver_to_gf turns MAJOR.MINOR.PATCH into MAJOR, a dot and exactly
\* three digits, MINOR as one digit and PATCH as two, and raises ValueError
\* for a string that has not exactly three parts.
C25_ThreeDigits ==
    \A o \in output :
        o[1] = "semver_to_gf" =>
            IF Dots(input.semver) # 2
            THEN o[2].raised = "ValueError"
            ELSE LET minor == BeforeDot(AfterDot(input.semver))
                     patch == AfterDot(AfterDot(input.semver))
                     decimal == AfterDot(o[2].value)
                 IN  /\ o[2].raised = "none"
                     /\ int(BeforeDot(o[2].value)) = int(BeforeDot(input.semver))
                     /\ Dots(o[2].value) = 1
                     /\ Len(decimal) = 3
                     /\ int(<<decimal[1]>>) = int(minor)
                     /\ int(SubSeq(decimal, 2, 3)) = int(patch)

(***************************************************************************)
(* CacheManager of sources/scripts/cache_branch.py.  font is the           *)
(* repository: the cache branch and its worktree, the archives in the      *)
(* worktree and in the branch's HEAD, and the two destination directories  *)
(* (each missing, empty, or holding the output of build 1 or 2).  input is *)
(* what origin holds of the cache branch.  history logs the calls.         *)
(***************************************************************************)
Missing == -1
EmptyDir == 0
Builds == {1, 2}

Stages == {"initial", "post"}
Hashes == {"h1", "h2"}
ArchiveKeys == Hashes \X Stages
Absent == [IsNone |-> TRUE]
NoOrigin == [IsNone |-> TRUE]

NoArchives == [k \in ArchiveKeys |-> Absent]

\* An archive of one directory that holds build 1.
OldArchive == ("sources/output" :> 1)

\* The repositories a call can find: no cache branch yet, or a cache branch
\* taken from origin, with or without an archive of an earlier run; origin
\* absent, or ahead by one archive.
CacheRepos ==
    {[branch |-> b, worktree |-> FALSE, ahead |-> FALSE, archives |-> a, head |-> a,
      dest |-> ("sources/output" :> o) @@ ("fonts" :> f)] :
        b \in {"none", "tracking"},
        a \in {NoArchives, [NoArchives EXCEPT ![<<"h1", "post">>] = OldArchive]},
        o \in {Missing, 1}, f \in {Missing, 1}}

CacheOrigins ==
    {NoOrigin,
     [archives |-> [NoArchives EXCEPT ![<<"h1", "initial">>] = OldArchive,
                                      ![<<"h1", "post">>] = OldArchive]]}

InitCache ==
    /\ font \in {c \in CacheRepos : c.branch = "none" => c.archives = NoArchives}
    /\ prev = font
    /\ history = <<>>
    /\ input \in {[fn |-> "cache", origin |-> o] : o \in CacheOrigins}
    /\ output = NoOutput

\* Lines 84-112, _ensure_worktree: the branch and the worktree are made when
\* absent; with an origin, the fetched branch is merged when that is a
\* fast-forward, which it is for a branch taken from origin with no commit
\* of its own.
ensure_worktree(c, origin) ==
    LET made == [c EXCEPT !.branch = IF @ = "none" THEN "local" ELSE @,
                          !.worktree = TRUE]
    IN  IF origin # NoOrigin /\ made.branch = "tracking" /\ ~made.ahead
        THEN [made EXCEPT
                !.archives = [k \in ArchiveKeys |->
                    IF origin.archives[k] # Absent THEN origin.archives[k] ELSE @[k]],
                !.head = [k \in ArchiveKeys |->
                    IF origin.archives[k] # Absent THEN origin.archives[k] ELSE @[k]]]
        ELSE made

\* Lines 131-145: the children of the stage's directories are removed.
clean_stage_destinations(dest, stage) ==
    [rel \in DOMAIN dest |->
        IF (rel = "sources/output" \/ (rel = "fonts" /\ stage = "post"))
           /\ dest[rel] # Missing
        THEN EmptyDir ELSE dest[rel]]

\* Lines 155-156: the archived directories are unpacked over the tree.
extractall(dest, archive) ==
    [rel \in DOMAIN dest |->
        IF rel \notin DOMAIN archive THEN dest[rel]
        ELSE IF archive[rel] = EmptyDir
        THEN (IF dest[rel] = Missing THEN EmptyDir ELSE dest[rel])
        ELSE archive[rel]]

\* CacheManager.restore(source_hash, stage): [font, ret, raised].
restore(c, origin, source_hash, stage) ==
    LET w == ensure_worktree(c, origin)
        archive == w.archives[<<source_hash, stage>>]
    IN  IF archive = Absent
        THEN [font |-> w, ret |-> FALSE, raised |-> "none"]
        ELSE [font |-> [w EXCEPT !.dest =
                          extractall(clean_stage_destinations(@, stage), archive)],
              ret |-> TRUE, raised |-> "none"]

\* Lines 177-179: the archive of the paths as they are.
make_archive(dest, rel_paths) == [rel \in rel_paths |-> dest[rel]]

\* A store without the test of line 168.
store_overwrites(c, origin, source_hash, stage, rel_paths) ==
    LET w == ensure_worktree(c, origin)
        key == <<source_hash, stage>>
        tar == make_archive(w.dest, rel_paths)
    IN  IF \E rel \in rel_paths : w.dest[rel] = Missing
        THEN [font |-> w, ret |-> FALSE, raised |-> "CacheError"]
        ELSE IF w.head[key] = tar
        THEN [font |-> [w EXCEPT !.archives[key] = tar],
              ret |-> FALSE, raised |-> "none"]
        ELSE [font |-> [w EXCEPT !.archives[key] = tar, !.head[key] = tar,
                                 !.ahead = TRUE],
              ret |-> TRUE, raised |-> "none"]

\* CacheManager.store(source_hash, stage, rel_paths): [font, ret, raised].
store(c, origin, source_hash, stage, rel_paths) ==
    LET w == ensure_worktree(c, origin)
        key == <<source_hash, stage>>
        tar == make_archive(w.dest, rel_paths)
    IN  IF w.archives[key] # Absent
        THEN [font |-> w, ret |-> FALSE, raised |-> "none"]
        ELSE IF \E rel \in rel_paths : w.dest[rel] = Missing
        THEN [font |-> w, ret |-> FALSE, raised |-> "CacheError"]
        ELSE IF w.head[key] = tar
        THEN \* line 184: nothing staged
             [font |-> [w EXCEPT !.archives[key] = tar],
              ret |-> FALSE, raised |-> "none"]
        ELSE [font |-> [w EXCEPT !.archives[key] = tar, !.head[key] = tar,
                                 !.ahead = TRUE],
              ret |-> TRUE, raised |-> "none"]

\* One call, logged with its arguments.
FinishCache(name, source_hash, stage, rel_paths, r) ==
    /\ prev' = font
    /\ font' = r.font
    /\ history' = Append(history,
            [op |-> name, source_hash |-> source_hash, stage |-> stage,
             rel_paths |-> rel_paths, ret |-> r.ret, raised |-> r.raised])
    /\ UNCHANGED <<input, output>>

Restore ==
    /\ Len(history) < MaxCalls
    /\ \E source_hash \in Hashes, stage \in Stages :
          FinishCache("restore", source_hash, stage, {},
                      restore(font, input.origin, source_hash, stage))

Store ==
    /\ Len(history) < MaxCalls
    /\ \E source_hash \in Hashes, stage \in Stages,
          rel_paths \in {{"sources/output"}, {"fonts", "sources/output"}} :
          FinishCache("store", source_hash, stage, rel_paths,
                      store(font, input.origin, source_hash, stage, rel_paths))

\* A build or a post-processing run between two calls writes a directory.
WriteOutputs ==
    /\ Len(history) < MaxCalls
    /\ history # <<>> => Last.op # "build"
    /\ \E rel \in DOMAIN font.dest, b \in Builds :
          /\ font.dest[rel] # b
          /\ FinishCache("build", "none", "none", {rel},
                [font |-> [font EXCEPT !.dest[rel] = b],
                 ret |-> TRUE, raised |-> "none"])

NextCache == Restore \/ Store \/ WriteOutputs

SpecCache == InitCache /\ [][NextCache]_vars

\* The archive key of a logged call.
KeyOf(h) == <<h.source_hash, h.stage>>

\* C26: store on an existing archive returns False and neither rewrites the
\* archive nor commits; store with a missing path raises CacheError and
\* creates no archive; the archive of a key holds what the first store that
\* returned True archived; restore without an archive returns False and
\* leaves the destination directories as they were.
C26_WriteOnce ==
    /\ (Ran("store") /\ prev.archives[KeyOf(Last)] # Absent) =>
            /\ Last.ret = FALSE
            /\ Last.raised = "none"
            /\ font.archives[KeyOf(Last)] = prev.archives[KeyOf(Last)]
            /\ font.head[KeyOf(Last)] = prev.head[KeyOf(Last)]
            /\ font.ahead = prev.ahead
    /\ (/\ Ran("store")
        /\ font.archives[KeyOf(Last)] = Absent
        /\ \E rel \in Last.rel_paths : prev.dest[rel] = Missing) =>
            Last.raised = "CacheError"
    /\ (Ran("store") /\ Last.raised = "CacheError") =>
            font.archives[KeyOf(Last)] = Absent
    /\ (Ran("store") /\ Last.ret = TRUE) =>
            font.archives[KeyOf(Last)] = [rel \in Last.rel_paths |-> prev.dest[rel]]
    /\ (Len(history) >= 1 /\ Last.op \in {"store", "restore", "build"}) =>
            \A key \in ArchiveKeys :
                prev.archives[key] # Absent =>
                    font.archives[key] = prev.archives[key]
    /\ (Ran("restore") /\ font.archives[KeyOf(Last)] = Absent) =>
            /\ Last.ret = FALSE
            /\ font.dest = prev.dest

\* A store returned True, the directory was rebuilt, and a second store for
\* the same key found the archive: it still holds the first build.
C26_Witness ==
    /\ Len(history) = 3
    /\ history[1].op = "store" /\ history[1].ret = TRUE
    /\ history[2].op = "build"
    /\ history[3].op = "store"
    /\ KeyOf(history[3]) = KeyOf(history[1])
    /\ history[2].rel_paths \subseteq history[3].rel_paths
    /\ font.archives[KeyOf(Last)] # [rel \in Last.rel_paths |-> font.dest[rel]]

\* The last three calls were add_fallback_mark_anchors,
\* add_dotted_circle_fallback and fix_broken_mark_anchors, none raised, and
\* the first two appended Added lookups between them.
PipelineRerun ==
    /\ Len(history) >= 3
    /\ history[Len(history) - 2].op = "add_fallback_mark_anchors"
    /\ history[Len(history) - 1].op = "add_dotted_circle_fallback"
    /\ Last.op = "fix_broken_mark_anchors"
    /\ \A i \in (Len(history) - 2)..Len(history) : ~history[i].raised

Added ==
    (IF history[Len(history) - 2].ret THEN 1 ELSE 0)
    + (IF history[Len(history) - 1].ret THEN 1 ELSE 0)

\* C27: fix_broken_mark_anchors, run on a font to which
\* add_fallback_mark_anchors and add_dotted_circle_fallback have added their
\* lookups, changes no anchor of the added lookups.
C27_PipelineFixedPoint ==
    (PipelineRerun /\ HasLayout(prev)) =>
        \A i \in DOMAIN prev.GPOS.LookupList :
            i > Len(prev.GPOS.LookupList) - Added =>
                font.GPOS.LookupList[i] = prev.GPOS.LookupList[i]

\* C28: a call of add_fallback_mark_anchors right after another, and a call
\* of add_dotted_circle_fallback right after another, appends no lookup, and
\* returns False when the call before it returned.
C28_FallbackIdempotent ==
    \A op \in {"add_fallback_mark_anchors", "add_dotted_circle_fallback"} :
        (RanTwice(op) /\ HasLayout(prev)) =>
            /\ Len(font.GPOS.LookupList) = Len(prev.GPOS.LookupList)
            /\ ~history[Len(history) - 1].raised =>
                    (Last.ret = FALSE /\ ~Last.raised)

\* The zero-based indices of the `mark` records of a feature list.
MarkFeatureIndices(gpos) ==
    {i - 1 : i \in {k \in DOMAIN gpos.FeatureList :
                        gpos.FeatureList[k].FeatureTag = "mark"}}

\* C30: when add_fallback_mark_anchors appends its lookup to a font without
\* a `mark` feature record, it raises nothing, also on an empty feature
\* list, and the record it creates is listed by the default language system
\* of every script.
C30_MarkFeatureReachable ==
    (/\ Ran("add_fallback_mark_anchors")
     /\ HasLayout(prev)
     /\ AppendedLookup
     /\ MarkFeatureIndices(prev.GPOS) = {})
    => /\ ~Last.raised
       /\ MarkFeatureIndices(font.GPOS) # {}
       /\ \A tag \in DOMAIN font.GPOS.ScriptList :
             MarkFeatureIndices(font.GPOS)
                \subseteq Range(font.GPOS.ScriptList[tag].DefaultLangSys.FeatureIndex)

(***************************************************************************)
(* post_process_parallel.py: the output path of every font of a bulk run.  *)
(* A path is general_use_fonts/<plan>/ttf/<name>; plan and name are        *)
(* sequences of characters.  Specification SpecPaths.                      *)
(***************************************************************************)
UpperCase ==
    <<"A", "B", "C", "D", "E", "F", "G", "H", "I", "J", "K", "L", "M",
      "N", "O", "P", "Q", "R", "S", "T", "U", "V", "W", "X", "Y", "Z">>

LowerCase ==
    <<"a", "b", "c", "d", "e", "f", "g", "h", "i", "j", "k", "l", "m",
      "n", "o", "p", "q", "r", "s", "t", "u", "v", "w", "x", "y", "z">>

\* str.lower.
lower(s) ==
    [i \in DOMAIN s |->
        IF \E k \in DOMAIN UpperCase : UpperCase[k] = s[i]
        THEN LowerCase[CHOOSE k \in DOMAIN UpperCase : UpperCase[k] = s[i]]
        ELSE s[i]]

\* str.replace(old, new): every occurrence, left to right, none overlapping.
RECURSIVE replace(_, _, _)
replace(s, old, new) ==
    IF Len(s) < Len(old) THEN s
    ELSE IF SubSeq(s, 1, Len(old)) = old
    THEN new \o replace(SubSeq(s, Len(old) + 1, Len(s)), old, new)
    ELSE <<s[1]>> \o replace(Tail(s), old, new)

\* The plan directories and the file names of the model.
PlanDirs ==
    {<<"P", "a">>, <<"p", "a">>, <<"P", " ", "a">>, <<"Q">>}

Extrabold == <<"E", "x", "t", "r", "a", "b", "o", "l", "d">>
Extralight == <<"E", "x", "t", "r", "a", "l", "i", "g", "h", "t">>
Semibold == <<"S", "e", "m", "i", "b", "o", "l", "d">>

FontFileName(stem) == <<"A", "-">> \o stem \o <<".", "t", "t", "f">>

FontFileNames ==
    {FontFileName(stem) :
        stem \in {Spelling("ExtraBold"), Extrabold, Spelling("SemiBold"),
                  Spelling("ExtraLight"), Spelling("Bold")}}

\* root.glob("**/*.ttf") over general_use_fonts/<plan_name>/ttf/<font>.ttf.
FontPaths == [plan : PlanDirs, sub : {"ttf"}, name : FontFileNames]

PathInputs ==
    {[fn |-> "main", fonts |-> fs] :
        fs \in {x \in SUBSET FontPaths :
                    Cardinality(x) >= 1 /\ Cardinality(x) <= MaxFonts}}

\* Lines 31-46.
output_path(font_path) ==
    [dir |-> replace(lower(font_path.plan), <<" ">>, <<>>),
     name |-> replace(
                replace(
                    replace(font_path.name, Spelling("ExtraBold"), Extrabold),
                    Spelling("ExtraLight"), Extralight),
                Spelling("SemiBold"), Semibold)]

\* process_and_copy_font(font_path): the tuple it returns.
process_and_copy_font(font_path) ==
    [success |-> TRUE, font_path |-> font_path,
     output_path |-> output_path(font_path)]

\* The files under fonts/ after post_process_font has saved to path from
\* source: a save replaces the file of that path.
Save(files, path, source) ==
    {x \in files : x.path # path} \cup {[path |-> path, source |-> source]}

\* main: fonts/ removed and created again, the pool not yet started.
InitPaths ==
    /\ font = {}
    /\ prev = {}
    /\ history = <<>>
    /\ input \in PathInputs
    /\ output = NoOutput

\* A worker of the pool runs process_and_copy_font on a font of the list.
WorkerTask ==
    \E font_path \in input.fonts :
        /\ \A k \in DOMAIN history : history[k].font_path # font_path
        /\ prev' = font
        /\ font' = Save(font, output_path(font_path), font_path)
        /\ history' = Append(history, process_and_copy_font(font_path))
        /\ UNCHANGED <<input, output>>

\* pool.map returns once every task is done: lines 87-102.
PoolSummary ==
    /\ output = NoOutput
    /\ Len(history) = Cardinality(input.fonts)
    /\ output' = {<<"successful",
                    Cardinality({k \in DOMAIN history : history[k].success})>>}
    /\ UNCHANGED <<font, prev, history, input>>

NextPaths ==
    \/ WorkerTask
    \/ PoolSummary

SpecPaths == InitPaths /\ [][NextPaths]_vars

\* C29: two tasks of a bulk run that were given distinct input paths write
\* distinct output paths.
C29_NoWriteRace ==
    \A i, j \in DOMAIN history :
        history[i].font_path # history[j].font_path
            => history[i].output_path # history[j].output_path

====
